---- MODULE Spec2Model ----
(***************************************************************************)
(* Model of the template patch-and-merge engine of create-android-app:     *)
(* the Section-Aware Merger and the addon installer (AddonManager), the    *)
(* Placeholder Patcher (patchFile of generateProject.ts) and the project   *)
(* materializer (generateProject).                                         *)
(*                                                                         *)
(* File contents are TLA+ strings, i.e. sequences of characters, and the   *)
(* JavaScript string primitives the code uses (indexOf, includes,          *)
(* substring, replace, replaceAll, trim, split, RegExp.test) are operators *)
(* over them that keep JavaScript's 0-based indices.                       *)
(***************************************************************************)
EXTENDS Integers, Sequences, FiniteSets, TLC

VARIABLES
    files,      \* destination tree: path |-> content of every existing file
    dirs,       \* destination tree: set of existing directories
    ops,        \* number of Merger / Patcher operations applied so far
    lastOp,     \* the arguments of the last Merger / Patcher operation
    mgr,        \* the AddonManager instance (its constructor arguments)
    stack,      \* the active calls of AddonManager.install, innermost last
    trace,      \* what the installer did so far, in order
    requested,  \* the names passed to the outermost install calls so far
    outcomes,   \* how each outermost install call ended
    fetched,    \* how many recipe fetches were made, and the last of them
    pc,         \* where generateProject stands
    run,        \* the number of the generateProject run on this destination
    opts,       \* the options of generateProject
    dist,       \* the template directories the distribution holds
    network,    \* what the version lookups of the run are answered
    resolved,   \* versionPatches of the run
    error,      \* the error generateProject threw, if any
    snapshot    \* the destination tree when the run began

treeVars    == <<files, dirs>>
opVars      == <<ops, lastOp>>
installVars == <<mgr, stack, trace, requested, outcomes, fetched>>
genVars     == <<pc, run, opts, dist, network, resolved, error, snapshot>>
vars        == <<files, dirs, ops, lastOp, mgr, stack, trace, requested, outcomes,
                 fetched, pc, run, opts, dist, network, resolved, error, snapshot>>

(***************************************************************************)
(* Bounds of the model.                                                    *)
(***************************************************************************)
MaxInserts  == 3    \* Merger insertions per behaviour
MaxInstalls == 2    \* outermost install calls per behaviour
MaxDepth    == 4    \* nested install calls the model follows
MaxPatches  == 2    \* applications of the Placeholder Patcher to one file
MaxRuns     == 2    \* generateProject runs on one destination
MaxNameLen  == 3    \* characters of a project name drawn from the alphabet
MaxTurns    == 2    \* turns of the steps loop of install taken one by one

(***************************************************************************)
(* JavaScript string primitives.                                           *)
(***************************************************************************)
NotFound == 0 - 1

WS == {" ", "\t", "\n", "\r"}           \* what \s and trim() treat as blank
LineTerminators == {"\n", "\r"}         \* where ^ matches under the m flag

MinOf(S) == CHOOSE i \in S : \A j \in S : i <= j

substring(s, a, b) == SubSeq(s, a + 1, b)

charAt(s, i) == SubSeq(s, i + 1, i + 1)

startsWithAt(s, p, i) ==
    /\ i >= 0
    /\ i + Len(p) <= Len(s)
    /\ SubSeq(s, i + 1, i + Len(p)) = p

startsWith(s, p) == startsWithAt(s, p, 0)

endsWith(s, p) == Len(p) <= Len(s) /\ startsWithAt(s, p, Len(s) - Len(p))

indexOf(s, p, from) ==
    LET hits == {i \in from..(Len(s) - Len(p)) : startsWithAt(s, p, i)}
    IN  IF hits = {} THEN NotFound ELSE MinOf(hits)

includes(s, p) == indexOf(s, p, 0) # NotFound

\* String.prototype.trim
trim(s) ==
    LET solid == {i \in 0..(Len(s) - 1) : charAt(s, i) \notin WS}
    IN  IF solid = {} THEN ""
        ELSE substring(s, MinOf(solid),
                       1 + (CHOOSE i \in solid : \A j \in solid : j <= i))

\* s.split(sep)[0]
splitFirst(s, sep) ==
    LET i == indexOf(s, sep, 0)
    IN  IF i = NotFound THEN s ELSE substring(s, 0, i)

\* the character ` (inside a string the lexer reads on from a ` to the
\* next ', so the character is cut out of such a pair)
Backtick == SubSeq("`'", 1, 1)

\* GetSubstitution of ECMAScript for a string pattern: in the replacement
\* text $$ is a dollar sign, $& the matched text, $` the text before the
\* match and $' the text after it; every other character stands for itself.
RECURSIVE GetSubstitution(_, _, _, _)
GetSubstitution(matched, str, position, replacement) ==
    IF ~includes(replacement, "$") THEN replacement
    ELSE IF Head(replacement) = "$" /\ Len(replacement) >= 2
    THEN LET c    == charAt(replacement, 1)
             rest == substring(replacement, 2, Len(replacement))
         IN  CASE c = "$" -> "$" \o GetSubstitution(matched, str, position, rest)
               [] c = "&" -> matched \o GetSubstitution(matched, str, position, rest)
               [] c = Backtick -> substring(str, 0, position)
                               \o GetSubstitution(matched, str, position, rest)
               [] c = "'" -> substring(str, position + Len(matched), Len(str))
                               \o GetSubstitution(matched, str, position, rest)
               [] OTHER   -> "$" \o GetSubstitution(matched, str, position,
                                        Tail(replacement))
    ELSE Head(replacement)
           \o GetSubstitution(matched, str, position, Tail(replacement))

\* String.prototype.replace with a string pattern: the first occurrence only
replace(s, p, r) ==
    LET i == indexOf(s, p, 0)
    IN  IF i = NotFound THEN s
        ELSE substring(s, 0, i) \o GetSubstitution(p, s, i, r)
               \o substring(s, i + Len(p), Len(s))

\* String.prototype.replaceAll with a non-empty string pattern: every
\* occurrence, found left to right in the original text, never rescanned
RECURSIVE replaceAllFrom(_, _, _, _)
replaceAllFrom(s, p, r, from) ==
    LET i == indexOf(s, p, from)
    IN  IF i = NotFound THEN substring(s, from, Len(s))
        ELSE substring(s, from, i) \o GetSubstitution(p, s, i, r)
               \o replaceAllFrom(s, p, r, i + Len(p))

replaceAll(s, p, r) == replaceAllFrom(s, p, r, 0)

(***************************************************************************)
(* The destination tree.                                                   *)
(***************************************************************************)
existsSync(f, d, p) == p \in DOMAIN f \/ p \in d

\* writeFile that leaves a file that is there as it is
writeFileIfAbsent(f, p, c) == [q \in DOMAIN f \cup {p} |-> IF q \in DOMAIN f THEN f[q] ELSE c]

writeFile(f, p, c) == [q \in DOMAIN f \cup {p} |-> IF q = p THEN c ELSE f[q]]

tomlPath == "gradle/libs.versions.toml"

(***************************************************************************)
(* AddonManager.updateTomlSection, the Section-Aware Merger.               *)
(***************************************************************************)
\* the key test as a raw substring search, which the anchored test replaces
keySubstringTest(key, text) == includes(text, key)

\* new RegExp(`^${key}\\s*=`, 'm').test(text).  The keys of the model are
\* TOML bare keys (letters, digits, - and _), none of which is a
\* regular-expression metacharacter, so the key part matches literally.
keyRegexTest(key, text) ==
    \E i \in 0..Len(text) :
        /\ i = 0 \/ charAt(text, i - 1) \in LineTerminators
        /\ startsWithAt(text, key, i)
        /\ \E j \in (i + Len(key))..(Len(text) - 1) :
              /\ charAt(text, j) = "="
              /\ \A k \in (i + Len(key))..(j - 1) : charAt(text, k) \in WS

\* the slice of the document the key test looks at
sectionContent(content, section) ==
    LET sectionIndex     == indexOf(content, section, 0)
        nextSectionIndex == indexOf(content, "[", sectionIndex + Len(section))
    IN  IF nextSectionIndex = NotFound
        THEN substring(content, sectionIndex, Len(content))
        ELSE substring(content, sectionIndex, nextSectionIndex)

updateTomlSection(f, d, filePath, section, line) ==
    IF ~existsSync(f, d, filePath) THEN f
    ELSE LET content == f[filePath]
             key     == trim(splitFirst(line, "="))
         IN  IF indexOf(content, section, 0) = NotFound THEN f
             ELSE IF keyRegexTest(key, sectionContent(content, section)) THEN f
             ELSE writeFile(f, filePath,
                            replace(content, section, section \o "\n" \o line))

formatTomlValue(val) ==
    IF startsWith(val, "{") THEN val ELSE "\"" \o val \o "\""

(***************************************************************************)
(* Paths are relative to projectPath; "" is the project directory itself.  *)
(***************************************************************************)
lastIndexOf(s, p) ==
    LET hits == {i \in 0..(Len(s) - Len(p)) : startsWithAt(s, p, i)}
    IN  IF hits = {} THEN NotFound
        ELSE CHOOSE i \in hits : \A j \in hits : j <= i

\* path.dirname
dirname(p) ==
    LET i == lastIndexOf(p, "/")
    IN  IF i = NotFound THEN "" ELSE substring(p, 0, i)

\* path.basename
basename(p) ==
    LET i == lastIndexOf(p, "/")
    IN  IF i = NotFound THEN p ELSE substring(p, i + 1, Len(p))

\* path.join of two non-empty relative paths
join(a, b) == IF a = "" THEN b ELSE a \o "/" \o b

\* the directories above p, the project directory included
ancestors(p) ==
    {""} \cup {substring(p, 0, i) : i \in {j \in 0..(Len(p) - 1) : charAt(p, j) = "/"}}

isUnder(p, dir) == dir = "" \/ startsWith(p, dir \o "/")

\* fs.ensureDir: the directory and every missing ancestor
ensureDir(d, p) == d \cup {p} \cup ancestors(p)

\* ensureDir and writeFile reject a path one of whose ancestors is a file,
\* and writeFile one that is a directory
blockedDir(f, p) == \E q \in {p} \cup ancestors(p) : q \in DOMAIN f

(***************************************************************************)
(* AddonManager: an instance is its constructor arguments.                 *)
(*   moduleName, packageName : strings                                     *)
(*   versions : the entries of the versions object, in insertion order     *)
(***************************************************************************)
\* a field of a step inside a template literal: undefined prints as text
Field(step, name) == IF name \in DOMAIN step THEN step[name] ELSE "undefined"

\* applyPatches without line 63: every key is taken as the placeholder
RECURSIVE applyPatchesKeysAsGiven(_, _, _)
applyPatchesKeysAsGiven(val, versions, n) ==
    IF n > Len(versions) \/ val = "" THEN val
    ELSE applyPatchesKeysAsGiven(replaceAll(val, versions[n][1], versions[n][2]),
                                 versions, n + 1)

\* AddonManager.applyPatches
RECURSIVE applyPatchesFrom(_, _, _)
applyPatchesFrom(val, versions, n) ==
    IF n > Len(versions) \/ val = "" THEN val     \* nothing to replace in ""
    ELSE LET key         == versions[n][1]
             version     == versions[n][2]
             placeholder == IF startsWith(key, "{{") THEN key
                            ELSE "{{" \o key \o "}}"
         IN  applyPatchesFrom(replaceAll(val, placeholder, version), versions, n + 1)

applyPatches(m, val) == applyPatchesFrom(val, m.versions, 1)

\* the copy of the step install hands to executeStep: value, replacement
\* and content, where present and non-empty, run through applyPatches
patchedStep(m, step) ==
    [k \in DOMAIN step |->
        IF k \in {"value", "replacement", "content"} /\ step[k] # ""
        THEN applyPatches(m, step[k]) ELSE step[k]]

\* resolvePath with the package name put into the path as it is
resolvePathDotted(m, p) ==
    replace(replace(p, "{{MODULE}}", m.moduleName), "{{PACKAGE_PATH}}", m.packageName)

\* AddonManager.resolvePath
resolvePath(m, p) ==
    replace(replace(p, "{{MODULE}}", m.moduleName),
            "{{PACKAGE_PATH}}", replaceAll(m.packageName, ".", "/"))

\* AddonManager.patchFile (path, pattern, replacement)
AddonManager_patchFile(f, d, filePath, pattern, replacement) ==
    IF ~existsSync(f, d, filePath) THEN f
    ELSE LET content == f[filePath]
         IN  IF includes(content, trim(replacement)) THEN f
             ELSE writeFile(f, filePath, replace(content, pattern, replacement))

rootBuildFile == "build.gradle.kts"

buildFile(m) == join(m.moduleName, "build.gradle.kts")

\* what makes executeStep throw: a field used through a method call is
\* undefined (TypeError), or a path that must be a file is a directory or
\* lies under a file (EISDIR, ENOTDIR)
stepThrows(m, f, d, step) ==
    LET t == Field(step, "type")
    IN  CASE t \in {"toml_version", "toml_library", "toml_plugin"} ->
               \/ tomlPath \in d
               \/ t # "toml_version" /\ "value" \notin DOMAIN step
          [] t = "gradle_plugin_root" ->
               "key" \notin DOMAIN step \/ rootBuildFile \in d
          [] t = "gradle_plugin_module" ->
               "key" \notin DOMAIN step \/ buildFile(m) \in d
          [] t \in {"gradle_implementation", "gradle_ksp"} -> buildFile(m) \in d
          [] t = "patch_file" ->
               \/ "file" \notin DOMAIN step
               \/ resolvePath(m, Field(step, "file")) \in d
               \/ /\ resolvePath(m, Field(step, "file")) \in DOMAIN f
                  /\ "replacement" \notin DOMAIN step
          [] t = "create_file" ->
               \/ "file" \notin DOMAIN step
               \/ "content" \notin DOMAIN step
               \/ resolvePath(m, Field(step, "file")) \in d
               \/ blockedDir(f, dirname(resolvePath(m, Field(step, "file"))))
          [] OTHER -> FALSE

\* AddonManager.executeStep, on a step that does not throw: the tree after it
executeStep(m, f, d, step) ==
    LET t == Field(step, "type")
        dotted == replaceAll(Field(step, "key"), "-", ".")
    IN  CASE t = "toml_version" ->
               [files |-> updateTomlSection(f, d, tomlPath, "[versions]",
                            Field(step, "key") \o " = \"" \o Field(step, "value") \o "\""),
                dirs |-> d]
          [] t = "toml_library" ->
               [files |-> updateTomlSection(f, d, tomlPath, "[libraries]",
                            Field(step, "key") \o " = " \o formatTomlValue(step.value)),
                dirs |-> d]
          [] t = "toml_plugin" ->
               [files |-> updateTomlSection(f, d, tomlPath, "[plugins]",
                            Field(step, "key") \o " = " \o formatTomlValue(step.value)),
                dirs |-> d]
          [] t = "gradle_plugin_root" ->
               [files |-> AddonManager_patchFile(f, d, rootBuildFile, "plugins {",
                            "plugins {\n    alias(libs.plugins." \o dotted \o ") apply false"),
                dirs |-> d]
          [] t = "gradle_plugin_module" ->
               [files |-> AddonManager_patchFile(f, d, buildFile(m), "plugins {",
                            "plugins {\n    alias(libs.plugins." \o dotted \o ")"),
                dirs |-> d]
          [] t = "gradle_implementation" ->
               [files |-> AddonManager_patchFile(f, d, buildFile(m), "dependencies {",
                            "dependencies {\n    implementation(" \o Field(step, "value") \o ")"),
                dirs |-> d]
          [] t = "gradle_ksp" ->
               [files |-> AddonManager_patchFile(f, d, buildFile(m), "dependencies {",
                            "dependencies {\n    ksp(" \o Field(step, "value") \o ")"),
                dirs |-> d]
          [] t = "patch_file" ->
               [files |-> AddonManager_patchFile(f, d, resolvePath(m, step.file),
                            Field(step, "pattern"), step.replacement),
                dirs |-> d]
          [] t = "create_file" ->
               LET newFilePath == resolvePath(m, step.file)
               IN  [files |-> writeFile(f, newFilePath,
                                replaceAll(step.content, "{{PACKAGE_NAME}}", m.packageName)),
                    dirs |-> ensureDir(d, dirname(newFilePath))]
          [] OTHER -> [files |-> f, dirs |-> d]

(***************************************************************************)
(* Addon recipes.  A step is a record holding the fields its JSON object   *)
(* has; a recipe holds name, steps and, where listed, dependencies.        *)
(***************************************************************************)
TomlVersion(k, v)    == [type |-> "toml_version", key |-> k, value |-> v]
TomlLibrary(k, v)    == [type |-> "toml_library", key |-> k, value |-> v]
TomlPlugin(k, v)     == [type |-> "toml_plugin", key |-> k, value |-> v]
PluginRoot(k)        == [type |-> "gradle_plugin_root", key |-> k]
PluginModule(k)      == [type |-> "gradle_plugin_module", key |-> k]
Implementation(v)    == [type |-> "gradle_implementation", value |-> v]
Ksp(v)               == [type |-> "gradle_ksp", value |-> v]
PatchFile(f, p, r)   == [type |-> "patch_file", file |-> f, pattern |-> p, replacement |-> r]
CreateFile(f, c)     == [type |-> "create_file", file |-> f, content |-> c]

MainActivityPath == "{{MODULE}}/src/main/kotlin/{{PACKAGE_PATH}}/MainActivity.kt"

BUILTIN_RECIPES ==
    [n \in {"coil", "hilt", "ksp", "retrofit", "ktor", "serialization", "datastore", "room"} |->
      CASE n = "coil" ->
        [name |-> "coil",
         steps |-> << TomlVersion("coil", "2.6.0"),
                      TomlLibrary("androidx-coil", "io.coil-kt:coil-compose:2.6.0"),
                      Implementation("libs.androidx.coil") >>]
      [] n = "hilt" ->
        [name |-> "hilt",
         dependencies |-> <<"ksp">>,
         steps |-> << TomlVersion("hilt", "2.51.1"),
                      TomlPlugin("hilt", "{ id = \"com.google.dagger.hilt.android\", version = \"2.51.1\" }"),
                      TomlLibrary("hilt-android", "{ group = \"com.google.dagger\", name = \"hilt-android\", version.ref = \"hilt\" }"),
                      TomlLibrary("hilt-compiler", "{ group = \"com.google.dagger\", name = \"hilt-compiler\", version.ref = \"hilt\" }"),
                      PluginRoot("hilt"),
                      PluginModule("hilt"),
                      Implementation("libs.hilt.android"),
                      Ksp("libs.hilt.compiler"),
                      CreateFile("{{MODULE}}/src/main/kotlin/{{PACKAGE_PATH}}/MainApplication.kt",
                                 "package {{PACKAGE_NAME}}\n\nimport android.app.Application\nimport dagger.hilt.android.HiltAndroidApp\n\n@HiltAndroidApp\nclass MainApplication : Application()"),
                      PatchFile("{{MODULE}}/src/main/AndroidManifest.xml", "<application",
                                "<application\n        android:name=\".MainApplication\""),
                      PatchFile(MainActivityPath, "import android.os.Bundle",
                                "import android.os.Bundle\nimport dagger.hilt.android.AndroidEntryPoint"),
                      PatchFile(MainActivityPath, "class MainActivity",
                                "@AndroidEntryPoint\nclass MainActivity") >>]
      [] n = "ksp" ->
        [name |-> "ksp",
         steps |-> << TomlVersion("ksp", "{{KSP_VERSION}}"),
                      TomlPlugin("ksp", "{ id = \"com.google.devtools.ksp\", version.ref = \"ksp\" }"),
                      PluginRoot("ksp"),
                      PluginModule("ksp") >>]
      [] n = "retrofit" ->
        [name |-> "retrofit",
         steps |-> << TomlVersion("retrofit", "{{RETROFIT_VERSION}}"),
                      TomlLibrary("retrofit", "com.squareup.retrofit2:retrofit:{{RETROFIT_VERSION}}"),
                      TomlLibrary("converter-gson", "com.squareup.retrofit2:converter-gson:{{RETROFIT_VERSION}}"),
                      Implementation("libs.retrofit"),
                      Implementation("libs.converter.gson") >>]
      [] n = "ktor" ->
        [name |-> "ktor",
         steps |-> << TomlVersion("ktor", "{{KTOR_VERSION}}"),
                      TomlLibrary("ktor-client-core", "io.ktor:ktor-client-core:{{KTOR_VERSION}}"),
                      TomlLibrary("ktor-client-okhttp", "io.ktor:ktor-client-okhttp:{{KTOR_VERSION}}"),
                      Implementation("libs.ktor.client.core"),
                      Implementation("libs.ktor.client.okhttp") >>]
      [] n = "serialization" ->
        [name |-> "serialization",
         steps |-> << TomlPlugin("kotlin-serialization", "{ id = \"org.jetbrains.kotlin.plugin.serialization\", version = \"{{KOTLIN_VERSION}}\" }"),
                      TomlLibrary("kotlinx-serialization-json", "org.jetbrains.kotlinx:kotlinx-serialization-json:1.6.3"),
                      PluginRoot("kotlin-serialization"),
                      PluginModule("kotlin-serialization"),
                      Implementation("libs.kotlinx.serialization.json") >>]
      [] n = "datastore" ->
        [name |-> "datastore",
         steps |-> << TomlVersion("datastore", "1.1.1"),
                      TomlLibrary("androidx-datastore-preferences", "androidx.datastore:datastore-preferences:1.1.1"),
                      Implementation("libs.androidx.datastore.preferences") >>]
      [] n = "room" ->
        [name |-> "room",
         dependencies |-> <<"ksp">>,
         steps |-> << TomlVersion("room", "2.6.1"),
                      TomlLibrary("androidx-room-runtime", "{ group = \"androidx.room\", name = \"room-runtime\", version.ref = \"room\" }"),
                      TomlLibrary("androidx-room-compiler", "{ group = \"androidx.room\", name = \"room-compiler\", version.ref = \"room\" }"),
                      TomlLibrary("androidx-room-ktx", "{ group = \"androidx.room\", name = \"room-ktx\", version.ref = \"room\" }"),
                      Implementation("libs.androidx.room.runtime"),
                      Implementation("libs.androidx.room.ktx"),
                      Ksp("libs.androidx.room.compiler") >>] ]

\* The recipe documents the remote location serves in the model, by addon
\* name: one that builds on room (and so on ksp), one with a step that lacks
\* its key, one that lists itself as a prerequisite, and two that list each
\* other.
REMOTE_RECIPES ==
    [n \in {"paging", "broken", "selfdep", "ping", "pong"} |->
      CASE n = "paging" ->
        [name |-> "paging",
         dependencies |-> <<"room">>,
         steps |-> << TomlLibrary("androidx-paging", "androidx.paging:paging-runtime:3.3.0"),
                      Implementation("libs.androidx.paging") >>]
      [] n = "broken" ->
        [name |-> "broken",
         steps |-> << TomlVersion("broken", "1.0"),
                      [type |-> "gradle_plugin_module"],
                      Implementation("libs.broken") >>]
      [] n = "selfdep" ->
        [name |-> "selfdep",
         dependencies |-> <<"selfdep">>,
         steps |-> << TomlVersion("selfdep", "1.0") >>]
      [] n = "ping" ->
        [name |-> "ping",
         dependencies |-> <<"pong">>,
         steps |-> << TomlVersion("ping", "1.0") >>]
      [] n = "pong" ->
        [name |-> "pong",
         dependencies |-> <<"ping">>,
         steps |-> << TomlVersion("pong", "1.0") >>] ]

NoRecipe == [name |-> ""]       \* resolveRecipe's null

\* a response body response.json() rejects
Unparsable == [name |-> "", unparsable |-> TRUE]

\* the status codes the fetch answers with in the model
Statuses == {200, 203, 404}

\* fetch rejects: there is no response
NetworkError == [status |-> 0, body |-> Unparsable]

\* what the fetch of the recipe document of an addon may answer: any of the
\* status codes with a body that is the document the remote location holds
\* for the name, or with one that is no JSON
Responses(name) ==
    {NetworkError}
    \cup [status : Statuses,
          body : {Unparsable} \cup (IF name \in DOMAIN REMOTE_RECIPES
                                    THEN {REMOTE_RECIPES[name]} ELSE {})]

\* response.ok whatever the status
okAlways(response) == response # NetworkError

\* response.ok: the status is in the range 200-299
ok(response) == response.status \in 200..299

\* lines 151-159: the parsed body of a response that is ok, null otherwise
recipeFrom(response) ==
    IF response # NetworkError /\ ok(response) /\ response.body # Unparsable
    THEN response.body
    ELSE NoRecipe

\* the record of one fetch
Fetch(name, response) ==
    [name |-> name, status |-> response.status, json |-> response.body # Unparsable]

NoFetch == [name |-> "", status |-> 0, json |-> FALSE]

NoneFetched == [count |-> 0, last |-> NoFetch]

\* the fetches made once a call of resolveRecipe is over
afterResolve(before, res) ==
    IF res.fetch = <<>> THEN before
    ELSE [count |-> before.count + 1, last |-> res.fetch[1]]

\* AddonManager.resolveRecipe: what a call may return for a name, and the
\* fetch it made.  A built-in recipe is returned without a fetch; otherwise
\* one fetch is made and its answer decides.
resolveRecipe(name) ==
    IF name \in DOMAIN BUILTIN_RECIPES
    THEN {[recipe |-> BUILTIN_RECIPES[name], fetch |-> <<>>]}
    ELSE {[recipe |-> recipeFrom(r), fetch |-> <<Fetch(name, r)>>] : r \in Responses(name)}

dependenciesOf(recipe) ==
    IF "dependencies" \in DOMAIN recipe THEN recipe.dependencies ELSE <<>>

\* a frame of install: the recipe it resolved, how many of its
\* prerequisites were installed and how many of its steps were run
Frame(name, recipe) == [name |-> name, recipe |-> recipe, dep |-> 0, step |-> 0]

\* where install resumes when the frame is on top of the stack: it runs
\* the steps before the prerequisites (the two loops exchanged)
positionStepsFirst(fr) ==
    IF fr.step < Len(fr.recipe.steps) THEN "steps"
    ELSE IF fr.dep < Len(dependenciesOf(fr.recipe)) THEN "dependencies"
    ELSE "return"

\* where install resumes when the frame is on top of the stack
position(fr) ==
    IF fr.dep < Len(dependenciesOf(fr.recipe)) THEN "dependencies"
    ELSE IF fr.step < Len(fr.recipe.steps) THEN "steps"
    ELSE "return"

Top == stack[Len(stack)]

\* the active calls after one turn of the steps loop had the try block
\* stood around the loop: a step that throws ends the loop of its recipe
afterStepLoopCaught(frames, threw) ==
    [frames EXCEPT ![Len(frames)].step =
        IF threw THEN Len(frames[Len(frames)].recipe.steps) ELSE @ + 1]

\* the active calls after one turn of the steps loop: the try block stands
\* inside the loop, so the loop goes on to the next step whether or not the
\* step threw
afterStep(frames, threw) ==
    [frames EXCEPT ![Len(frames)].step = @ + 1]

StepEvent(name, i, threw) ==
    [kind |-> "step", recipe |-> name, index |-> i, threw |-> threw]

NotFoundEvent(name) ==
    [kind |-> "notfound", recipe |-> name, index |-> 0, threw |-> FALSE]

NoManager == [moduleName |-> "", packageName |-> "", versions |-> <<>>]

NoOptions == [projectName |-> "", uiType |-> "", libraries |-> <<>>]

NoTree == [files |-> <<>>, dirs |-> {}]

\* every version lookup fails: resolveAll finds nothing, getRemoteDefaults
\* returns {} and getLatestKspVersion null
Offline == [maven |-> <<>>, remote |-> <<>>, ksp |-> "undefined"]

\* generateProject is not running
GeneratorIdle ==
    /\ pc = "idle"
    /\ run = 0
    /\ opts = NoOptions
    /\ dist = [base |-> TRUE, ui |-> TRUE, gitignore |-> TRUE]
    /\ network = Offline
    /\ resolved = <<>>
    /\ error = ""
    /\ snapshot = NoTree

InstallerIdle ==
    /\ mgr = NoManager
    /\ stack = <<>>
    /\ trace = <<>>
    /\ requested = <<>>
    /\ outcomes = <<>>
    /\ fetched = NoneFetched

(***************************************************************************)
(* Reading a configuration document line by line, as the catalog format    *)
(* defines it: a section runs from its header line to the next line that   *)
(* starts with [ (or to the end), and a line declares the key that stands  *)
(* before its first = sign.  The claims are stated with this reading.      *)
(***************************************************************************)
RECURSIVE Lines(_)
Lines(s) ==
    LET i == indexOf(s, "\n", 0)
    IN  IF i = NotFound THEN <<s>>
        ELSE <<substring(s, 0, i)>> \o Lines(substring(s, i + 1, Len(s)))

HeadersIn(ls, section) == {i \in 1..Len(ls) : trim(ls[i]) = section}

HasSection(doc, section) == LET ls == Lines(doc) IN HeadersIn(ls, section) # {}

\* the lines of the section, header excluded
SectionLines(doc, section) ==
    LET ls      == Lines(doc)
        headers == HeadersIn(ls, section)
        start   == MinOf(headers)
        stops   == {j \in (start + 1)..Len(ls) : startsWith(ls[j], "[")}
        end     == IF stops = {} THEN Len(ls) ELSE MinOf(stops) - 1
    IN  IF headers = {} THEN <<>> ELSE SubSeq(ls, start + 1, end)

Declares(line, key) == includes(line, "=") /\ trim(splitFirst(line, "=")) = key

KeyCount(doc, section, key) ==
    LET ls == SectionLines(doc, section)
    IN  Cardinality({i \in 1..Len(ls) : Declares(ls[i], key)})

\* the number of lines of a text that, trimmed, read exactly `text`
LineCount(content, text) ==
    LET ls == Lines(content)
    IN  Cardinality({i \in 1..Len(ls) : trim(ls[i]) = text})

(***************************************************************************)
(* The version catalog of the base template (templates/base/gradle/        *)
(* libs.versions.toml), reduced to one entry per section.                  *)
(***************************************************************************)
TomlTemplate ==
    "[versions]\nagp = \"{{AGP_VERSION}}\"\nkotlin = \"{{KOTLIN_VERSION}}\"\n\n"
    \o "[libraries]\nandroidx-core-ktx = { group = \"androidx.core\", name = \"core-ktx\", version.ref = \"coreKtx\" }\n\n"
    \o "[plugins]\nandroid-application = { id = \"com.android.application\", version.ref = \"agp\" }\n"

(***************************************************************************)
(* Specification SpecMerger: Merger insertions into one catalog.           *)
(***************************************************************************)
\* catalogs the insertions start from: every section holds unique keys
MergerDocs ==
    { TomlTemplate,
      "[versions]\nktor = \"2.3.7\"\n\n[libraries]\nktor-client-core = \"io.ktor:ktor-client-core:2.3.7\"\n",
      "[libraries]\nktor = \"io.ktor:ktor:2.3.7\"\n",
      "[versions]\n  ktor = \"2.3.7\"\n\n[libraries]\n" }

MergerSections == {"[versions]", "[libraries]", "[plugins]"}
MergerKeys     == {"ktor", "ktor-client-core"}
MergerValues   == {"2.3.7", "[2.0,3.0)"}

NoOp == [section |-> "", key |-> "", value |-> ""]

InitMerger ==
    /\ \/ \E doc \in MergerDocs : files = [p \in {tomlPath} |-> doc]
       \/ files = <<>>
    /\ dirs = {"", "gradle"}
    /\ ops = 0
    /\ lastOp = NoOp
    /\ InstallerIdle
    /\ GeneratorIdle

\* one call updateTomlSection(tomlPath, section, `${key} = ${formatTomlValue(value)}`)
MergerInsert(section, key, value) ==
    /\ ops < MaxInserts
    /\ files' = updateTomlSection(files, dirs, tomlPath, section,
                                  key \o " = " \o formatTomlValue(value))
    /\ ops' = ops + 1
    /\ lastOp' = [section |-> section, key |-> key, value |-> value]
    /\ UNCHANGED <<dirs, installVars, genVars>>

NextMerger ==
    \E section \in MergerSections, key \in MergerKeys, value \in MergerValues :
        MergerInsert(section, key, value)

SpecMerger == InitMerger /\ [][NextMerger]_vars

CatalogExists == tomlPath \in DOMAIN files

\* C1: after any sequence of Merger insertions into a catalog whose
\* sections held unique keys, every section declares each key at most once.
NoDuplicateKeys ==
    CatalogExists =>
        \A section \in MergerSections, key \in MergerKeys :
            KeyCount(files[tomlPath], section, key) <= 1

\* C4: an insertion of key K into a section that exists and has no line
\* declaring exactly K is carried out, whatever other keys the section
\* holds, those that extend K and those that K extends included.
KeyAnchoring ==
    [][ ( /\ ops' = ops + 1
          /\ CatalogExists
          /\ HasSection(files[tomlPath], lastOp'.section)
          /\ KeyCount(files[tomlPath], lastOp'.section, lastOp'.key) = 0 )
        => KeyCount(files'[tomlPath], lastOp'.section, lastOp'.key) = 1 ]_vars

\* C4 witness: ktor was inserted on top of a section that already declared
\* ktor-client-core, and ktor-client-core on top of one that declared ktor
KeyAnchoringWitness ==
    /\ CatalogExists
    /\ lastOp.section = "[libraries]"
    /\ \E other \in MergerKeys \ {lastOp.key} :
          LET ls == SectionLines(files[tomlPath], "[libraries]")
          IN  /\ Len(ls) >= 2
              /\ Declares(ls[1], lastOp.key)
              /\ \E i \in 2..Len(ls) : Declares(ls[i], other)
              /\ KeyCount(files[tomlPath], "[libraries]", lastOp.key) = 1

(***************************************************************************)
(* patchFile of generateProject.ts, the Placeholder Patcher.               *)
(*   replacements : the entries of the map, in insertion order             *)
(***************************************************************************)
\* the loop with replace in the place of replaceAll: only the first
\* occurrence of each key is rewritten
RECURSIVE patchContentFirstOnly(_, _, _)
patchContentFirstOnly(content, replacements, n) ==
    IF n > Len(replacements) THEN content
    ELSE LET key   == replacements[n][1]
             value == replacements[n][2]
         IN  IF includes(content, key)
             THEN patchContentFirstOnly(replace(content, key, value), replacements, n + 1)
             ELSE patchContentFirstOnly(content, replacements, n + 1)

\* the loop over Object.entries(replacements), from entry n on
RECURSIVE patchContent(_, _, _)
patchContent(content, replacements, n) ==
    IF n > Len(replacements) THEN content
    ELSE LET key   == replacements[n][1]
             value == replacements[n][2]
         IN  IF includes(content, key)
             THEN patchContent(replaceAll(content, key, value), replacements, n + 1)
             ELSE patchContent(content, replacements, n + 1)

\* the flag `modified` set whatever the content holds
patchModifiedAlways(content, replacements, n) == TRUE

\* the flag `modified`: some key of the map was found when its turn came
RECURSIVE patchModified(_, _, _)
patchModified(content, replacements, n) ==
    IF n > Len(replacements) THEN FALSE
    ELSE LET key   == replacements[n][1]
             value == replacements[n][2]
         IN  IF includes(content, key)
             THEN TRUE
             ELSE patchModified(content, replacements, n + 1)

patchFile(f, d, filePath, replacements) ==
    IF ~existsSync(f, d, filePath) THEN f
    ELSE IF patchModified(f[filePath], replacements, 1)
         THEN writeFile(f, filePath, patchContent(f[filePath], replacements, 1))
         ELSE f

\* whether the call reaches fs.writeFile
patchFileWrites(f, d, filePath, replacements) ==
    /\ existsSync(f, d, filePath)
    /\ patchModified(f[filePath], replacements, 1)

(***************************************************************************)
(* Template files the installer edits.  The module build file is           *)
(* app/build.gradle.kts of the views variant and the activity is the       *)
(* MainActivity.kt of the variants, both cut down to the lines the         *)
(* installer and the patcher look for; the root build file and the         *)
(* manifest belong to the base template.                                   *)
(***************************************************************************)
RootBuildTemplate ==
    "plugins {\n    alias(libs.plugins.android.application) apply false\n"
    \o "    alias(libs.plugins.jetbrains.kotlin.android) apply false\n}\n"

ModuleBuildTemplate ==
    "plugins {\n    alias(libs.plugins.android.application)\n"
    \o "    alias(libs.plugins.jetbrains.kotlin.android)\n}\n\n"
    \o "android {\n    namespace = \"{{APPLICATION_ID}}\"\n    compileSdk = {{COMPILE_SDK}}\n\n"
    \o "    defaultConfig {\n        applicationId = \"{{APPLICATION_ID}}\"\n    }\n}\n\n"
    \o "dependencies {\n    implementation(libs.androidx.core.ktx)\n    testImplementation(libs.junit)\n}\n"

ManifestTemplate ==
    "<manifest xmlns:android=\"http://schemas.android.com/apk/res/android\">\n"
    \o "    <application\n        android:label=\"{{PROJECT_NAME}}\">\n    </application>\n</manifest>\n"

MainActivityTemplate ==
    "package {{PACKAGE_NAME}}\n\nimport android.os.Bundle\nimport androidx.activity.ComponentActivity\n\n"
    \o "class MainActivity : ComponentActivity() {\n}\n"

SettingsTemplate == "rootProject.name = \"{{PROJECT_NAME}}\"\ninclude(\":app\")\n"

(***************************************************************************)
(* Specification SpecPatch: the Placeholder Patcher applied repeatedly to  *)
(* one file with one replacement map.                                      *)
(***************************************************************************)
\* the files the patcher is applied to: path and content
PatchTargets ==
    { <<"settings.gradle.kts", SettingsTemplate>>,
      <<"app/build.gradle.kts", ModuleBuildTemplate>>,
      <<tomlPath, TomlTemplate>>,
      <<"app/src/main/res/values/strings.xml",
        "<resources>\n    <string name=\"app_name\">{{PROJECT_NAME}}</string>\n</resources>\n">>,
      <<"notes/nested.txt", "{{{{PROJECT_NAME}}PROJECT_NAME}} {{APPLICATION_ID}}">>,
      <<"gradle.properties", "org.gradle.jvmargs=-Xmx2048m\n">> }

\* the replacement maps: those generateProject builds for a project name,
\* a module name and a version table, among them project names that hold
\* token text, a dollar sign or nothing
PatchMaps ==
    { << <<"{{PROJECT_NAME}}", "Demo App">>, <<"include(\":app\")", "include(\":library\")">> >>,
      << <<"{{APPLICATION_ID}}", "com.example.demoapp">>, <<"{{AGP_VERSION}}", "8.8.0">>,
         <<"{{KOTLIN_VERSION}}", "2.1.0">>, <<"{{COMPILE_SDK}}", "35">> >>,
      << <<"{{PROJECT_NAME}}", "my {{PROJECT_NAME}}">> >>,
      << <<"{{PROJECT_NAME}}", "{{APPLICATION_ID}}">>, <<"{{APPLICATION_ID}}", "com.example.x">> >>,
      << <<"{{APPLICATION_ID}}", "com.example.x">>, <<"{{PROJECT_NAME}}", "{{APPLICATION_ID}}">> >>,
      << <<"{{PROJECT_NAME}}", "">> >>,
      << <<"{{PROJECT_NAME}}", "cash$$ & $&">> >> }

InitPatch ==
    /\ \E target \in PatchTargets, map \in PatchMaps, present \in BOOLEAN :
          /\ files = IF present THEN [p \in {target[1]} |-> target[2]] ELSE <<>>
          /\ dirs = ancestors(target[1])
          /\ lastOp = [path |-> target[1], map |-> map, original |-> target[2],
                        writes |-> 0]
    /\ ops = 0
    /\ InstallerIdle
    /\ GeneratorIdle

\* one call patchFile(path, map)
Patch ==
    /\ "map" \in DOMAIN lastOp
    /\ ops < MaxPatches
    /\ files' = patchFile(files, dirs, lastOp.path, lastOp.map)
    /\ lastOp' = IF patchFileWrites(files, dirs, lastOp.path, lastOp.map)
                 THEN [lastOp EXCEPT !.writes = @ + 1]
                 ELSE lastOp
    /\ ops' = ops + 1
    /\ UNCHANGED <<dirs, installVars, genVars>>

NextPatch == Patch

SpecPatch == InitPatch /\ [][NextPatch]_vars

Chars(s) == {charAt(s, i) : i \in 0..(Len(s) - 1)}

\* no value of the map can bring a key back: every value is non-empty, has
\* no dollar sign and shares no character with any key
ValuesApartFromKeys(map) ==
    \A i \in 1..Len(map) :
        /\ map[i][2] # ""
        /\ "$" \notin Chars(map[i][2])
        /\ \A j \in 1..Len(map) : Chars(map[i][2]) \cap Chars(map[j][1]) = {}

DemoVersions ==
    << <<"{{AGP_VERSION}}", "8.8.0">>, <<"{{KOTLIN_VERSION}}", "2.1.0">>,
       <<"{{COMPILE_SDK}}", "35">>, <<"{{RETROFIT_VERSION}}", "2.11.0">>,
       <<"{{KTOR_VERSION}}", "3.0.3">>, <<"{{KSP_VERSION}}", "2.1.0-1.0.29">> >>

DemoManager ==
    [moduleName |-> "app", packageName |-> "com.example.demoapp", versions |-> DemoVersions]

\* the tree generateProject leaves for project "Demo App" without addons
DemoFiles ==
    LET sources == "app/src/main/kotlin/com/example/demoapp/MainActivity.kt"
        manifest == "app/src/main/AndroidManifest.xml"
        ids == << <<"{{PACKAGE_NAME}}", "com.example.demoapp">>,
                  <<"{{PROJECT_NAME}}", "Demo App">>,
                  <<"{{APPLICATION_ID}}", "com.example.demoapp">> >>
    IN  [p \in {tomlPath, rootBuildFile, "app/build.gradle.kts", manifest, sources} |->
          CASE p = tomlPath -> patchContent(TomlTemplate, DemoVersions, 1)
            [] p = rootBuildFile -> RootBuildTemplate
            [] p = "app/build.gradle.kts" -> patchContent(ModuleBuildTemplate, ids \o DemoVersions, 1)
            [] p = manifest -> ManifestTemplate
            [] p = sources -> patchContent(MainActivityTemplate, ids, 1)]

DemoDirs == UNION {ancestors(p) : p \in DOMAIN DemoFiles}

\* the addon names the model passes to the outermost install calls
Requestable == {"hilt", "room", "retrofit", "ktor", "paging", "broken", "selfdep", "ping", "unknown"}

InitInstall ==
    /\ files = DemoFiles
    /\ dirs = DemoDirs
    /\ ops = 0
    /\ lastOp = NoOp
    /\ mgr = DemoManager
    /\ stack = <<>>
    /\ trace = <<>>
    /\ requested = <<>>
    /\ outcomes = <<>>
    /\ fetched = NoneFetched
    /\ GeneratorIdle

\* install(name) up to the prerequisites: resolve the recipe; without one,
\* log and return, otherwise the call becomes the innermost active one
Enter(name, recipe, callers) ==
    IF recipe = NoRecipe
    THEN /\ trace' = Append(trace, NotFoundEvent(name))
         /\ stack' = callers
    ELSE /\ trace' = trace
         /\ stack' = Append(callers, Frame(name, recipe))

\* an outermost call install(name) on an instance of its own, as
\* handleInstall makes
Install(name) ==
    /\ pc = "idle"
    /\ mgr # NoManager
    /\ stack = <<>>
    /\ Len(requested) < MaxInstalls
    /\ requested' = Append(requested, name)
    /\ \E res \in resolveRecipe(name) :
          /\ Enter(name, res.recipe, stack)
          /\ fetched' = afterResolve(fetched, res)
          /\ outcomes' = IF res.recipe = NoRecipe THEN Append(outcomes, "returned")
                         ELSE outcomes
    /\ UNCHANGED <<treeVars, opVars, mgr, genVars>>

\* for (const dep of recipe.dependencies) await this.install(dep)
InstallDependency ==
    /\ stack # <<>>
    /\ position(Top) = "dependencies"
    /\ Len(stack) < MaxDepth
    /\ LET dep     == dependenciesOf(Top.recipe)[Top.dep + 1]
           callers == [stack EXCEPT ![Len(stack)].dep = @ + 1]
       IN  \E res \in resolveRecipe(dep) :
              /\ Enter(dep, res.recipe, callers)
              /\ fetched' = afterResolve(fetched, res)
    /\ UNCHANGED <<treeVars, opVars, mgr, requested, outcomes, genVars>>

\* one turn of the loop over recipe.steps: the try block around
\* applyPatches and executeStep, and the catch that logs and goes on
ExecuteStep ==
    /\ stack # <<>>
    /\ position(Top) = "steps"
    /\ LET step  == patchedStep(mgr, Top.recipe.steps[Top.step + 1])
           threw == stepThrows(mgr, files, dirs, step)
           after == executeStep(mgr, files, dirs, step)
       IN  /\ files' = IF threw THEN files ELSE after.files
           /\ dirs' = IF threw THEN dirs ELSE after.dirs
           /\ trace' = Append(trace, StepEvent(Top.name, Top.step + 1, threw))
    /\ stack' = afterStep(stack, stepThrows(mgr, files, dirs,
                                 patchedStep(mgr, Top.recipe.steps[Top.step + 1])))
    /\ UNCHANGED <<opVars, mgr, requested, outcomes, fetched, genVars>>

\* install returns to its caller
Return ==
    /\ stack # <<>>
    /\ position(Top) = "return"
    /\ stack' = SubSeq(stack, 1, Len(stack) - 1)
    /\ outcomes' = IF Len(stack) = 1 THEN Append(outcomes, "returned") ELSE outcomes
    /\ UNCHANGED <<treeVars, opVars, mgr, trace, requested, fetched, genVars>>

NextInstall ==
    \/ \E name \in Requestable : Install(name)
    \/ InstallDependency
    \/ ExecuteStep
    \/ Return

SpecInstall == InitInstall /\ [][NextInstall]_vars

(***************************************************************************)
(* What the claims about the installer speak of.                           *)
(***************************************************************************)
Known == DOMAIN BUILTIN_RECIPES \cup DOMAIN REMOTE_RECIPES

RecipeOf(name) ==
    IF name \in DOMAIN BUILTIN_RECIPES THEN BUILTIN_RECIPES[name] ELSE REMOTE_RECIPES[name]

StepsOfKind(kinds) ==
    UNION { {RecipeOf(n).steps[i] : i \in {j \in 1..Len(RecipeOf(n).steps) :
                                            Field(RecipeOf(n).steps[j], "type") \in kinds}} :
            n \in Known }

\* the alias lines the plugin-activation steps of the recipes insert
RootAliasLines ==
    { "alias(libs.plugins." \o replaceAll(st.key, "-", ".") \o ") apply false" :
        st \in {t \in StepsOfKind({"gradle_plugin_root"}) : "key" \in DOMAIN t} }

ModuleAliasLines ==
    { "alias(libs.plugins." \o replaceAll(st.key, "-", ".") \o ")" :
        st \in {t \in StepsOfKind({"gradle_plugin_module"}) : "key" \in DOMAIN t} }

\* the lines the dependency and annotation-processor steps insert
DependencyLines ==
    { "implementation(" \o st.value \o ")" : st \in StepsOfKind({"gradle_implementation"}) }
    \cup { "ksp(" \o st.value \o ")" : st \in StepsOfKind({"gradle_ksp"}) }

\* C2: after any sequence of install calls every plugin alias line occurs
\* at most once in the root build file and at most once in the module
\* build file.
PluginAliasOnce ==
    /\ \A line \in RootAliasLines :
          rootBuildFile \in DOMAIN files => LineCount(files[rootBuildFile], line) <= 1
    /\ \A line \in ModuleAliasLines :
          buildFile(mgr) \in DOMAIN files => LineCount(files[buildFile(mgr)], line) <= 1

\* C3: after any sequence of install calls every inserted implementation(..)
\* line and every ksp(..) line occurs at most once in the module build file.
DependencyLineOnce ==
    \A line \in DependencyLines :
        buildFile(mgr) \in DOMAIN files => LineCount(files[buildFile(mgr)], line) <= 1

\* the names a recipe depends on, directly or through other recipes
RECURSIVE Closure(_, _)
Closure(S, k) ==
    IF k = 0 THEN S
    ELSE Closure(S \cup UNION { {dependenciesOf(RecipeOf(n))[i] :
                                   i \in 1..Len(dependenciesOf(RecipeOf(n)))} :
                                n \in S \cap Known }, k - 1)

Below(name) ==
    Closure({dependenciesOf(RecipeOf(name))[i] : i \in 1..Len(dependenciesOf(RecipeOf(name)))},
            Cardinality(Known))

Acyclic(name) == \A n \in ({name} \cup Below(name)) \cap Known : n \notin Below(n)

\* the steps a depth-first, prerequisites-first installation performs
RECURSIVE Plan(_, _), PlanAll(_, _)
Plan(name, fuel) ==
    IF fuel = 0 \/ name \notin Known THEN <<>>
    ELSE PlanAll(dependenciesOf(RecipeOf(name)), fuel - 1)
           \o [i \in 1..Len(RecipeOf(name).steps) |-> <<name, i>>]

PlanAll(names, fuel) ==
    IF names = <<>> THEN <<>>
    ELSE Plan(Head(names), fuel) \o PlanAll(Tail(names), fuel)

\* the steps performed so far, in order
Performed ==
    LET steps == SelectSeq(trace, LAMBDA e : e.kind = "step")
    IN  [i \in 1..Len(steps) |-> <<steps[i].recipe, steps[i].index>>]

IsPrefix(a, b) == Len(a) <= Len(b) /\ SubSeq(b, 1, Len(a)) = a

AllResolved == \A i \in 1..Len(trace) : trace[i].kind # "notfound"

AllAcyclic == \A i \in 1..Len(requested) : requested[i] \in Known /\ Acyclic(requested[i])

\* C6: the steps are performed prerequisites first, depth first: as long as
\* every recipe resolved, what was performed is the beginning of the
\* depth-first plan of the requested addons, and all of it once install
\* has returned.
DepthFirstOrder ==
    (AllAcyclic /\ AllResolved) =>
        /\ IsPrefix(Performed, PlanAll(requested, Cardinality(Known) + 1))
        /\ stack = <<>> => Performed = PlanAll(requested, Cardinality(Known) + 1)

\* C6 witness: install("paging") returned, paging requiring room and room
\* requiring ksp: ksp's four steps, room's seven, then paging's two
DepthFirstOrderWitness ==
    /\ requested = <<"paging">>
    /\ stack = <<>>
    /\ outcomes = <<"returned">>
    /\ Len(trace) = 13
    /\ \A i \in 1..4 : trace[i] = StepEvent("ksp", i, FALSE)
    /\ \A i \in 1..7 : trace[4 + i] = StepEvent("room", i, FALSE)
    /\ \A i \in 1..2 : trace[11 + i] = StepEvent("paging", i, FALSE)

\* C7: install terminates for every registry: no recipe is entered while
\* an install of the same recipe is still active.
NoRecipeReentered ==
    \A i, j \in 1..Len(stack) : i < j => stack[i].name # stack[j].name

(***************************************************************************)
(* generateProject: helpers.                                               *)
(***************************************************************************)
UpperCase == "ABCDEFGHIJKLMNOPQRSTUVWXYZ"
LowerCase == "abcdefghijklmnopqrstuvwxyz"
Digits    == "0123456789"

\* String.prototype.toLowerCase, on ASCII text
RECURSIVE toLowerCase(_)
toLowerCase(s) ==
    IF s = "" THEN ""
    ELSE LET i == indexOf(UpperCase, Head(s), 0)
         IN  (IF i = NotFound THEN Head(s) ELSE charAt(LowerCase, i)) \o toLowerCase(Tail(s))

\* s.replace(/[^...]/g, by): every character outside `keep` becomes `by`
RECURSIVE replaceOutside(_, _, _)
replaceOutside(s, keep, by) ==
    IF s = "" THEN ""
    ELSE (IF Head(s) \in keep THEN Head(s) ELSE by) \o replaceOutside(Tail(s), keep, by)

\* s.replace(/^[0-9]+/, '')
RECURSIVE stripLeadingDigits(_)
stripLeadingDigits(s) ==
    IF s # "" /\ includes(Digits, Head(s)) THEN stripLeadingDigits(Tail(s)) ELSE s

\* lines 618-619 without the second replace: leading digits stay
safeProjectNameDigitsKept(projectName) ==
    replaceOutside(toLowerCase(projectName),
                   {charAt(LowerCase \o Digits, i) : i \in 0..35}, "")

\* generateProject lines 618-619
safeProjectName(projectName) ==
    stripLeadingDigits(replaceOutside(toLowerCase(projectName),
                                      {charAt(LowerCase \o Digits, i) : i \in 0..35}, ""))

packageNameOf(projectName) ==
    "com.example." \o (IF safeProjectName(projectName) = "" THEN "androidapp"
                       ELSE safeProjectName(projectName))

isLibrary(uiType) == uiType = "compose-library"

moduleNameOf(uiType) == IF isLibrary(uiType) THEN "library" ELSE "app"

\* fs.copy(template, projectPath): every file of the template tree is
\* written over the destination, its directories are created
copy(f, template) ==
    [p \in DOMAIN f \cup DOMAIN template |-> IF p \in DOMAIN template THEN template[p] ELSE f[p]]

copyDirs(d, template) == d \cup {""} \cup UNION {ancestors(p) : p \in DOMAIN template}

\* fs.remove(dir): the directory and everything below it
remove(f, dir) == [p \in {q \in DOMAIN f : q # dir /\ ~isUnder(q, dir)} |-> f[p]]

removeDirs(d, dir) == {q \in d : q # dir /\ ~isUnder(q, dir)}

\* the path of an entry of directory `from` once the directory is `to`
moved(p, from, to) == to \o substring(p, Len(from), Len(p))

\* fs.copy in the place of fs.move: the entries of `from` stay where they are
moveDirCopied(f, from, to) ==
    LET kept   == remove(f, to)
        inside == {p \in DOMAIN kept : isUnder(p, from)}
    IN  [p \in DOMAIN kept \cup {moved(q, from, to) : q \in inside} |->
            IF p \in DOMAIN kept THEN kept[p]
            ELSE kept[CHOOSE q \in inside : moved(q, from, to) = p]]

\* fs.move(from, to, {overwrite: true}) of a directory: what was at `to`
\* is removed, the parent of `to` is created, the directory is renamed
moveDir(f, from, to) ==
    LET kept   == remove(f, to)
        inside == {p \in DOMAIN kept : isUnder(p, from)}
    IN  [p \in (DOMAIN kept \ inside) \cup {moved(q, from, to) : q \in inside} |->
            IF p \in DOMAIN kept \ inside THEN kept[p]
            ELSE kept[CHOOSE q \in inside : moved(q, from, to) = p]]

moveDirDirs(d, from, to) ==
    LET kept   == removeDirs(d, to)
        inside == {p \in kept : p = from \/ isUnder(p, from)}
    IN  (kept \ inside) \cup {moved(q, from, to) : q \in inside} \cup ancestors(to)

\* fs.readdir(dir).length === 0
isEmptyDir(f, d, dir) ==
    /\ \A p \in DOMAIN f : ~isUnder(p, dir)
    /\ \A p \in d : p = dir \/ ~isUnder(p, dir)

\* patchSourceFiles: patchFile on every .kt, .java and .xml file below dir
isSourceFile(p) == endsWith(p, ".kt") \/ endsWith(p, ".java") \/ endsWith(p, ".xml")

patchSourceFiles(f, dir, packageName, projectName) ==
    [p \in DOMAIN f |->
        IF isUnder(p, dir) /\ isSourceFile(basename(p))
        THEN patchContent(f[p], << <<"{{PACKAGE_NAME}}", packageName>>,
                                   <<"{{PROJECT_NAME}}", projectName>>,
                                   <<"{{APPLICATION_ID}}", packageName>> >>, 1)
        ELSE f[p]]

\* cleanEmptyDirs: from dir upwards, remove directories while they exist
\* and are empty
RECURSIVE cleanEmptyDirs(_, _, _)
cleanEmptyDirs(f, d, dir) ==
    IF dir # "" /\ dir \in d /\ isEmptyDir(f, d, dir)
    THEN cleanEmptyDirs(f, d \ {dir}, dirname(dir))
    ELSE d

(***************************************************************************)
(* The version patch map.                                                  *)
(***************************************************************************)
\* Object.keys(artifacts), lines 545-563
ArtifactKeys ==
    << "AGP_VERSION", "KOTLIN_VERSION", "CORE_KTX_VERSION", "JUNIT_VERSION",
       "JUNIT_ANDROIDX_VERSION", "ESPRESSO_CORE_VERSION", "LIFECYCLE_RUNTIME_KTX_VERSION",
       "ACTIVITY_COMPOSE_VERSION", "COMPOSE_BOM_VERSION", "APPCOMPAT_VERSION",
       "MATERIAL_VERSION", "NAVIGATION_COMPOSE_VERSION", "TV_FOUNDATION_VERSION",
       "TV_MATERIAL_VERSION", "CONSTRAINTLAYOUT_VERSION", "RETROFIT_VERSION", "KTOR_VERSION" >>

allKeys == ArtifactKeys \o <<"COMPILE_SDK", "TARGET_SDK", "MIN_SDK", "GRADLE_VERSION">>

buildInfraKeys ==
    { "AGP_VERSION", "KOTLIN_VERSION", "GRADLE_VERSION", "COMPILE_SDK", "TARGET_SDK", "MIN_SDK",
      "CORE_KTX_VERSION", "ACTIVITY_COMPOSE_VERSION", "APPCOMPAT_VERSION", "MATERIAL_VERSION",
      "NAVIGATION_COMPOSE_VERSION", "LIFECYCLE_RUNTIME_KTX_VERSION" }

\* CONSTANTS.DEFAULTS
DEFAULTS ==
    [k \in { "AGP_VERSION", "KOTLIN_VERSION", "CORE_KTX_VERSION", "JUNIT_VERSION",
             "JUNIT_ANDROIDX_VERSION", "ESPRESSO_CORE_VERSION", "LIFECYCLE_RUNTIME_KTX_VERSION",
             "ACTIVITY_COMPOSE_VERSION", "COMPOSE_BOM_VERSION", "APPCOMPAT_VERSION",
             "MATERIAL_VERSION", "NAVIGATION_COMPOSE_VERSION", "TV_FOUNDATION_VERSION",
             "TV_MATERIAL_VERSION", "CONSTRAINTLAYOUT_VERSION", "COMPILE_SDK", "TARGET_SDK",
             "MIN_SDK", "GRADLE_VERSION" } |->
      CASE k = "AGP_VERSION" -> "8.8.0"
        [] k = "KOTLIN_VERSION" -> "2.1.0"
        [] k = "CORE_KTX_VERSION" -> "1.15.0"
        [] k = "JUNIT_VERSION" -> "4.13.2"
        [] k = "JUNIT_ANDROIDX_VERSION" -> "1.2.1"
        [] k = "ESPRESSO_CORE_VERSION" -> "3.6.1"
        [] k = "LIFECYCLE_RUNTIME_KTX_VERSION" -> "2.8.7"
        [] k = "ACTIVITY_COMPOSE_VERSION" -> "1.10.0"
        [] k = "COMPOSE_BOM_VERSION" -> "2025.02.00"
        [] k = "APPCOMPAT_VERSION" -> "1.7.0"
        [] k = "MATERIAL_VERSION" -> "1.12.0"
        [] k = "NAVIGATION_COMPOSE_VERSION" -> "2.8.7"
        [] k = "TV_FOUNDATION_VERSION" -> "1.0.0-alpha12"
        [] k = "TV_MATERIAL_VERSION" -> "1.0.0"
        [] k = "CONSTRAINTLAYOUT_VERSION" -> "2.2.0"
        [] k = "COMPILE_SDK" -> "35"
        [] k = "TARGET_SDK" -> "35"
        [] k = "MIN_SDK" -> "24"
        [] k = "GRADLE_VERSION" -> "8.12"]

\* a lookup in an object: the value, or undefined
Undefined == "undefined"

Lookup(obj, k) == IF k \in DOMAIN obj THEN obj[k] ELSE Undefined

\* a || b || c on strings and undefined
OrElse(a, b) == IF a = Undefined \/ a = "" THEN b ELSE a

\* lines 576-583 without the build-infrastructure branch: the registry
\* result comes first for every key
versionForRegistryFirst(key, resolvedMaven, remoteDefaults) ==
    OrElse(Lookup(resolvedMaven, key),
           OrElse(Lookup(remoteDefaults, key), Lookup(DEFAULTS, key)))

\* lines 576-583: the value chosen for one key
versionFor(key, resolvedMaven, remoteDefaults) ==
    IF key \in buildInfraKeys
    THEN OrElse(Lookup(remoteDefaults, key), Lookup(DEFAULTS, key))
    ELSE OrElse(Lookup(resolvedMaven, key),
                OrElse(Lookup(remoteDefaults, key), Lookup(DEFAULTS, key)))

\* lines 568-588: the entries of versionPatches, in insertion order
versionPatches(resolvedMaven, remoteDefaults, latestKsp) ==
    LET kotlinVersion == versionFor("KOTLIN_VERSION", resolvedMaven, remoteDefaults)
    IN  [i \in 1..Len(allKeys) |->
            <<"{{" \o allKeys[i] \o "}}", versionFor(allKeys[i], resolvedMaven, remoteDefaults)>>]
        \o << <<"{{KSP_VERSION}}", OrElse(latestKsp, kotlinVersion \o "-1.0.29")>> >>

\* handleInstall (dist/index.js lines 120-134): the keys of its artifacts
installKeys == <<"KOTLIN_VERSION", "RETROFIT_VERSION", "KTOR_VERSION">>

\* the entries of handleInstall's versions, in insertion order
handleInstallVersions(resolvedMaven, remoteDefaults, latestKsp) ==
    LET valueOf(key) == OrElse(Lookup(resolvedMaven, key),
                               OrElse(Lookup(remoteDefaults, key), Lookup(DEFAULTS, key)))
    IN  [i \in 1..Len(installKeys) |-> <<installKeys[i], valueOf(installKeys[i])>>]
        \o << <<"KSP_VERSION", OrElse(latestKsp, valueOf("KOTLIN_VERSION") \o "-1.0.29")>> >>

(***************************************************************************)
(* The template trees of the distribution, as path |-> content.            *)
(***************************************************************************)
TreeOf(entries) ==
    [p \in {e[1] : e \in entries} |-> (CHOOSE e \in entries : e[1] = p)[2]]

GitignoreTemplate == "*.iml\n.gradle\n/local.properties\n/build\n"

wrapperPath == "gradle/wrapper/gradle-wrapper.properties"

WrapperTemplate ==
    "distributionUrl=https://services.gradle.org/distributions/gradle-{{GRADLE_VERSION}}-bin.zip\n"

AdbScript == "const fs = require('fs');\n"

StringsTemplate ==
    "<resources>\n    <string name=\"app_name\">{{PROJECT_NAME}}</string>\n</resources>\n"

LibraryBuildTemplate ==
    "plugins {\n    alias(libs.plugins.android.library)\n"
    \o "    alias(libs.plugins.jetbrains.kotlin.android)\n}\n\n"
    \o "android {\n    namespace = \"{{APPLICATION_ID}}\"\n    compileSdk = {{COMPILE_SDK}}\n}\n\n"
    \o "dependencies {\n    implementation(libs.androidx.core.ktx)\n}\n"

LibraryGreetingTemplate ==
    "package {{PACKAGE_NAME}}\n\nimport androidx.compose.material3.Text\n"
    \o "import androidx.compose.runtime.Composable\n\n"
    \o "@Composable\nfun LibraryGreeting(name: String) {\n    Text(text = \"Hello $name from your new library!\")\n}\n"

\* templates/base; the ignore file is shipped as _gitignore
BaseTemplate(withGitignore) ==
    TreeOf({ <<rootBuildFile, RootBuildTemplate>>,
             <<"settings.gradle.kts", SettingsTemplate>>,
             <<tomlPath, TomlTemplate>>,
             <<wrapperPath, WrapperTemplate>>,
             <<"scripts/adb.js", AdbScript>>,
             <<"app/src/main/AndroidManifest.xml", ManifestTemplate>> }
           \cup (IF withGitignore THEN {<<"_gitignore", GitignoreTemplate>>} ELSE {}))

\* templates/<uiType>
UiTemplate(uiType) ==
    CASE uiType = "mobile-compose-navigation" ->
           TreeOf({ <<"app/build.gradle.kts", ModuleBuildTemplate>>,
                    <<"app/src/main/kotlin/com/example/template/MainActivity.kt", MainActivityTemplate>>,
                    <<"app/src/main/res/values/strings.xml", StringsTemplate>> })
      [] uiType = "tv-compose" ->
           TreeOf({ <<"app/build.gradle.kts", ModuleBuildTemplate>>,
                    <<"app/src/main/java/com/example/template/MainActivity.kt", MainActivityTemplate>> })
      [] uiType = "compose-library" ->
           TreeOf({ <<"library/build.gradle.kts", LibraryBuildTemplate>>,
                    <<"library/src/main/kotlin/com/example/template/LibraryGreeting.kt",
                      LibraryGreetingTemplate>> })

(***************************************************************************)
(* What the network answers during version resolution.                     *)
(*   maven  : VersionResolver.resolveAll                                   *)
(*   remote : VersionResolver.getRemoteDefaults                            *)
(*   ksp    : VersionResolver.getLatestKspVersion (null as Undefined)      *)
(***************************************************************************)
NetworkCases ==
    { Offline,
      [maven  |-> [AGP_VERSION |-> "8.9.1", COMPOSE_BOM_VERSION |-> "2025.03.00",
                   RETROFIT_VERSION |-> "2.11.0", KTOR_VERSION |-> "3.1.1"],
       remote |-> [AGP_VERSION |-> "8.8.2", KOTLIN_VERSION |-> "2.1.10"],
       ksp    |-> "2.1.10-1.0.31"] }

(***************************************************************************)
(* Specification SpecGen: generateProject, run on one destination.         *)
(***************************************************************************)
\* project names; none of them is sanitized to "template"
ProjectNames == {"Demo App", "123 Cool App!"}
UiTypes      == {"mobile-compose-navigation", "tv-compose", "compose-library"}
LibraryLists == {<<>>, <<"hilt">>, <<"hilt", "room">>, <<"broken", "retrofit">>}

GenOptions ==
    [projectName : ProjectNames, uiType : UiTypes, libraries : LibraryLists]

sdkPath == "/opt/android-sdk"

\* the template directories the installed package holds
Distributions ==
    { [base |-> TRUE,  ui |-> TRUE,  gitignore |-> TRUE],
      [base |-> TRUE,  ui |-> TRUE,  gitignore |-> FALSE],
      [base |-> FALSE, ui |-> TRUE,  gitignore |-> TRUE],
      [base |-> TRUE,  ui |-> FALSE, gitignore |-> TRUE] }

BaseTemplateNotFound == "Base template not found"
UiTemplateNotFound   == "UI template not found"

InitGen ==
    /\ files = <<>>
    /\ dirs = {}
    /\ ops = 0
    /\ lastOp = NoOp
    /\ InstallerIdle
    /\ pc = "ensureDir"
    /\ run = 1
    /\ opts \in GenOptions
    /\ dist \in Distributions
    /\ network \in NetworkCases
    /\ resolved = <<>>
    /\ error = ""
    /\ snapshot = NoTree

\* generateProject goes on to its next statement
GoTo(next) ==
    /\ pc' = next
    /\ UNCHANGED <<run, opts, dist, network, error, snapshot>>

\* generateProject throws
Fail(message) ==
    /\ pc' = "failed"
    /\ error' = message
    /\ UNCHANGED <<run, opts, dist, network, snapshot>>

\* line 542
EnsureDir ==
    /\ pc = "ensureDir"
    /\ dirs' = ensureDir(dirs, "")
    /\ GoTo("resolveVersions")
    /\ UNCHANGED <<files, opVars, installVars, resolved>>

\* lines 544-588
ResolveVersions ==
    /\ pc = "resolveVersions"
    /\ resolved' = versionPatches(network.maven, network.remote, network.ksp)
    /\ GoTo("copyBase")
    /\ UNCHANGED <<treeVars, opVars, installVars>>

\* lines 590-599
CopyBase ==
    /\ pc = "copyBase"
    /\ IF ~dist.base
       THEN /\ Fail(BaseTemplateNotFound)
            /\ UNCHANGED treeVars
       ELSE /\ files' = copy(files, BaseTemplate(dist.gitignore))
            /\ dirs' = copyDirs(dirs, BaseTemplate(dist.gitignore))
            /\ GoTo("removeApp")
    /\ UNCHANGED <<opVars, installVars, resolved>>

\* lines 601-603
RemoveApp ==
    /\ pc = "removeApp"
    /\ IF isLibrary(opts.uiType)
       THEN /\ files' = remove(files, "app")
            /\ dirs' = removeDirs(dirs, "app")
       ELSE UNCHANGED treeVars
    /\ GoTo("renameGitignore")
    /\ UNCHANGED <<opVars, installVars, resolved>>

\* lines 605-608: fs.move without overwrite rejects an existing target
RenameGitignore ==
    /\ pc = "renameGitignore"
    /\ IF ~existsSync(files, dirs, "_gitignore")
       THEN /\ UNCHANGED treeVars
            /\ GoTo("copyUi")
       ELSE IF existsSync(files, dirs, ".gitignore")
       THEN /\ UNCHANGED treeVars
            /\ Fail("dest already exists.")
       ELSE /\ files' = [p \in (DOMAIN files \ {"_gitignore"}) \cup {".gitignore"} |->
                            IF p = ".gitignore" THEN files["_gitignore"] ELSE files[p]]
            /\ dirs' = dirs
            /\ GoTo("copyUi")
    /\ UNCHANGED <<opVars, installVars, resolved>>

\* lines 610-615
CopyUi ==
    /\ pc = "copyUi"
    /\ IF ~dist.ui
       THEN /\ Fail(UiTemplateNotFound)
            /\ UNCHANGED treeVars
       ELSE /\ files' = copy(files, UiTemplate(opts.uiType))
            /\ dirs' = copyDirs(dirs, UiTemplate(opts.uiType))
            /\ GoTo("patch")
    /\ UNCHANGED <<opVars, installVars, resolved>>

\* lines 617-640
PatchConfiguration ==
    /\ pc = "patch"
    /\ LET moduleName  == moduleNameOf(opts.uiType)
           packageName == packageNameOf(opts.projectName)
           stringsPath == join(moduleName, "src/main/res/values/strings.xml")
           f1 == patchFile(files, dirs, "settings.gradle.kts",
                           << <<"{{PROJECT_NAME}}", opts.projectName>>,
                              <<"include(\":app\")", "include(\":" \o moduleName \o "\")">> >>)
           f2 == patchFile(f1, dirs, tomlPath, resolved)
           f3 == patchFile(f2, dirs, wrapperPath, resolved)
           f4 == patchFile(f3, dirs, join(moduleName, "build.gradle.kts"),
                           << <<"{{APPLICATION_ID}}", packageName>> >> \o resolved)
       IN  files' = IF existsSync(f4, dirs, stringsPath)
                    THEN patchFile(f4, dirs, stringsPath,
                                   << <<"{{PROJECT_NAME}}", opts.projectName>> >>)
                    ELSE f4
    /\ GoTo("relocate")
    /\ UNCHANGED <<dirs, opVars, installVars, resolved>>

\* lines 642-650 left out: generateProject goes on to the addons with the
\* placeholder package where the template put it
RelocateSkipped ==
    /\ pc = "relocate"
    /\ UNCHANGED treeVars
    /\ GoTo("addons")
    /\ UNCHANGED <<opVars, installVars, resolved>>

\* lines 642-650, for a package path other than the placeholder's
Relocate ==
    /\ pc = "relocate"
    /\ LET moduleName     == moduleNameOf(opts.uiType)
           packageName    == packageNameOf(opts.projectName)
           srcBase        == join(moduleName, "src/main/kotlin")
           oldPackagePath == join(srcBase, "com/example/template")
           newPackagePath == join(srcBase, replaceAll(packageName, ".", "/"))
       IN  IF ~existsSync(files, dirs, oldPackagePath)
           THEN /\ UNCHANGED treeVars
                /\ GoTo("addons")
           ELSE LET movedFiles == moveDir(files, oldPackagePath, newPackagePath)
                    movedDirs  == moveDirDirs(dirs, oldPackagePath, newPackagePath)
                    patched    == patchSourceFiles(movedFiles, newPackagePath,
                                                   packageName, opts.projectName)
                IN  /\ files' = patched
                    /\ dirs' = cleanEmptyDirs(patched, movedDirs, oldPackagePath)
                    /\ GoTo("addons")
    /\ UNCHANGED <<opVars, installVars, resolved>>

\* line 654
AddonManagerOf(options, versions) ==
    [moduleName  |-> moduleNameOf(options.uiType),
     packageName |-> packageNameOf(options.projectName),
     versions    |-> versions]

\* lines 653-657: the next call addonManager.install(lib)
InstallLibrary ==
    /\ pc = "addons"
    /\ stack = <<>>
    /\ Len(requested) < Len(opts.libraries)
    /\ mgr' = AddonManagerOf(opts, resolved)
    /\ requested' = Append(requested, opts.libraries[Len(requested) + 1])
    /\ \E res \in resolveRecipe(opts.libraries[Len(requested) + 1]) :
          /\ Enter(opts.libraries[Len(requested) + 1], res.recipe, stack)
          /\ fetched' = afterResolve(fetched, res)
          /\ outcomes' = IF res.recipe = NoRecipe THEN Append(outcomes, "returned")
                         ELSE outcomes
    /\ UNCHANGED <<treeVars, opVars, genVars>>

\* lines 660-661, once the loop over the libraries is through
WriteLocalProperties ==
    /\ pc = "addons"
    /\ stack = <<>>
    /\ Len(requested) = Len(opts.libraries)
    /\ files' = writeFile(files, "local.properties", "sdk.dir=" \o sdkPath \o "\n")
    /\ GoTo("packageJson")
    /\ UNCHANGED <<dirs, opVars, installVars, resolved>>

\* lines 664-690: the fields of the document that depend on the options
packageJson(projectName, packageName, moduleName) ==
    "{\n  \"name\": \""
    \o replaceOutside(toLowerCase(projectName),
                      {charAt(LowerCase \o Digits \o "-", i) : i \in 0..36}, "-")
    \o "\",\n  \"scripts\": {\n    \"open\": \"node scripts/adb.js shell am start -n "
    \o packageName \o "/.MainActivity\",\n    \"lsp:sync\": \"./gradlew :"
    \o moduleName \o ":compileDebugKotlin\"\n  }\n}\n"

\* line 691
WritePackageJson ==
    /\ pc = "packageJson"
    /\ files' = writeFile(files, "package.json",
                          packageJson(opts.projectName, packageNameOf(opts.projectName),
                                      moduleNameOf(opts.uiType)))
    /\ GoTo("git")
    /\ UNCHANGED <<dirs, opVars, installVars, resolved>>

\* the git commands of lines 695-697, in order
GitCommands == <<"init", "add", "commit">>

\* logger.warn('Failed to initialize git repository.'), with the number of
\* the command that failed
GitWarning(command) ==
    [kind |-> "gitFailed", recipe |-> "", index |-> command, threw |-> TRUE]

\* where generateProject stands after the git commands had they stood
\* outside a try block: a command that fails makes generateProject throw
afterGitUncaught(failed) == IF failed = 0 THEN "done" ELSE "failed"

\* where generateProject stands after the try block of lines 693-701,
\* `failed` being the number of the command that failed, 0 for none
afterGit(failed) == "done"

\* lines 693-701: git init, add and commit, or a warning; git init is what
\* creates .git
GitInit ==
    /\ pc = "git"
    /\ \E failed \in 0..Len(GitCommands) :
          /\ dirs' = IF failed = 1 THEN dirs ELSE dirs \cup {".git"}
          /\ trace' = IF failed = 0 THEN trace ELSE Append(trace, GitWarning(failed))
          /\ GoTo(afterGit(failed))
    /\ UNCHANGED <<files, opVars, mgr, stack, requested, outcomes, fetched, resolved>>

\* generateProject is called again with the same options on the tree the
\* run before produced
Rerun ==
    /\ pc = "done"
    /\ run < MaxRuns
    /\ run' = run + 1
    /\ pc' = "ensureDir"
    /\ snapshot' = [files |-> files, dirs |-> dirs]
    /\ network' \in NetworkCases
    /\ resolved' = <<>>
    /\ mgr' = NoManager
    /\ stack' = <<>>
    /\ trace' = <<>>
    /\ requested' = <<>>
    /\ outcomes' = <<>>
    /\ fetched' = NoneFetched
    /\ UNCHANGED <<treeVars, opVars, opts, dist, error>>

NextGen ==
    \/ EnsureDir
    \/ ResolveVersions
    \/ CopyBase
    \/ RemoveApp
    \/ RenameGitignore
    \/ CopyUi
    \/ PatchConfiguration
    \/ Relocate
    \/ InstallLibrary
    \/ InstallDependency
    \/ ExecuteStep
    \/ Return
    \/ WriteLocalProperties
    \/ WritePackageJson
    \/ GitInit
    \/ Rerun

SpecGen == InitGen /\ [][NextGen]_vars

(***************************************************************************)
(* What the claims about generateProject speak of.                         *)
(***************************************************************************)
\* C8: when generateProject aborts because the base or the variant template
\* directory is missing, the destination tree is what it was when the run
\* began: nothing was created, copied, deleted or renamed.
AbortBeforeMutation ==
    (pc = "failed" /\ error \in {BaseTemplateNotFound, UiTemplateNotFound}) =>
        /\ files = snapshot.files
        /\ dirs = snapshot.dirs

\* the keys the catalog steps of the recipes declare, with their sections
CatalogEntries ==
    { <<"[versions]", st.key>> : st \in StepsOfKind({"toml_version"}) }
    \cup { <<"[libraries]", st.key>> : st \in StepsOfKind({"toml_library"}) }
    \cup { <<"[plugins]", st.key>> : st \in StepsOfKind({"toml_plugin"}) }

\* how often a line occurs in a file of a tree; a missing file has no lines
CountIn(tree, path, line) ==
    IF path \in DOMAIN tree THEN LineCount(tree[path], line) ELSE 0

KeyCountIn(tree, section, key) ==
    IF tomlPath \in DOMAIN tree THEN KeyCount(tree[tomlPath], section, key) ELSE 0

\* C9: when generateProject has run again with the same options on the tree
\* the run before produced, every plugin alias line, every dependency line
\* and every catalog key of the recipes occurs as often as it did after
\* the run before.
SecondRunSameLines ==
    (run >= 2 /\ pc \in {"done", "failed"}) =>
        LET moduleBuild == join(moduleNameOf(opts.uiType), "build.gradle.kts")
        IN  /\ \A line \in RootAliasLines :
                  CountIn(files, rootBuildFile, line)
                    = CountIn(snapshot.files, rootBuildFile, line)
            /\ \A line \in ModuleAliasLines \cup DependencyLines :
                  CountIn(files, moduleBuild, line)
                    = CountIn(snapshot.files, moduleBuild, line)
            /\ \A e \in CatalogEntries :
                  KeyCountIn(files, e[1], e[2]) = KeyCountIn(snapshot.files, e[1], e[2])

\* generateProject is past the loop over the libraries
AfterAddons == pc \in {"packageJson", "git", "done"}

\* step s of recipe r was run after the i-th event of the trace
RanAfter(i, r, s) ==
    \E j \in (i + 1)..Len(trace) :
        trace[j].kind = "step" /\ trace[j].recipe = r /\ trace[j].index = s

\* an install of recipe r is active and has not come to its step s yet
StillToRun(r, s) ==
    \E f \in 1..Len(stack) : stack[f].name = r /\ stack[f].step < s

\* C10: once a step of a recipe has thrown, every later step of the recipe
\* is run (it was run already or the install is on its way to it), every
\* install call that is over has returned, and once the loop over the
\* requested addons is through, install was called for each of them and
\* every step of the depth-first plan of the list was run.
StepFailureIsolated ==
    \A i \in 1..Len(trace) :
        (trace[i].kind = "step" /\ trace[i].threw) =>
            /\ \A s \in (trace[i].index + 1)..Len(RecipeOf(trace[i].recipe).steps) :
                  RanAfter(i, trace[i].recipe, s) \/ StillToRun(trace[i].recipe, s)
            /\ stack = <<>> =>
                  /\ Len(outcomes) = Len(requested)
                  /\ \A o \in 1..Len(outcomes) : outcomes[o] = "returned"
            /\ AfterAddons =>
                  /\ requested = opts.libraries
                  /\ AllResolved =>
                        Performed = PlanAll(opts.libraries, Cardinality(Known) + 1)

\* C10 witness: generateProject is through with the libraries broken and
\* retrofit; the second step of broken threw, its third step and the five
\* steps of retrofit were run after it and left their lines
StepFailureIsolatedWitness ==
    /\ pc = "done"
    /\ opts.libraries = <<"broken", "retrofit">>
    /\ outcomes = <<"returned", "returned">>
    /\ Len(trace) = 8
    /\ trace[1] = StepEvent("broken", 1, FALSE)
    /\ trace[2] = StepEvent("broken", 2, TRUE)
    /\ trace[3] = StepEvent("broken", 3, FALSE)
    /\ \A i \in 1..5 : trace[3 + i] = StepEvent("retrofit", i, FALSE)
    /\ CountIn(files, buildFile(mgr), "implementation(libs.broken)") = 1
    /\ CountIn(files, buildFile(mgr), "implementation(libs.retrofit)") = 1

(***************************************************************************)
(* Recipe resolution.                                                      *)
(***************************************************************************)
\* the fetch was answered with a status other than 200, was rejected, or
\* its body was no JSON
Not200(fetch) == fetch.status # 200 \/ ~fetch.json

\* the fetch was answered with a status outside 200-299, was rejected, or
\* its body was no JSON
NotOk(fetch) == fetch.status \notin 200..299 \/ ~fetch.json

\* every built-in recipe among the libraries had each of its steps run
BuiltinsInstalled ==
    \A l \in 1..Len(opts.libraries) :
        opts.libraries[l] \in DOMAIN BUILTIN_RECIPES =>
            \A s \in 1..Len(BUILTIN_RECIPES[opts.libraries[l]].steps) :
                RanAfter(0, opts.libraries[l], s)

\* one step within a run, where failed(fetch) says which fetches count as
\* failed: a call of install makes at most one fetch and none for a
\* built-in name; a call whose fetch failed leaves the tree alone, becomes
\* no active call, logs that the recipe was not found and returns; and
\* once the loop over the libraries is through, install was called for
\* every library and returned, and the built-in ones were installed.
ResolutionStep(failed(_)) ==
    run' = run =>
        /\ fetched'.count \in {fetched.count, fetched.count + 1}
        /\ fetched'.count = fetched.count + 1 =>
              /\ fetched'.last.name \notin DOMAIN BUILTIN_RECIPES
              /\ failed(fetched'.last) =>
                    /\ files' = files
                    /\ dirs' = dirs
                    /\ Len(stack') = Len(stack)
                    /\ trace' = Append(trace, NotFoundEvent(fetched'.last.name))
                    /\ stack = <<>> => outcomes' = Append(outcomes, "returned")
        /\ fetched'.count = fetched.count =>
              \/ Len(stack') <= Len(stack)
              \/ stack'[Len(stack')].name \in DOMAIN BUILTIN_RECIPES
        /\ (pc' \in {"packageJson", "git", "done"}) =>
              /\ requested' = opts'.libraries
              /\ Len(outcomes') = Len(requested')
              /\ \A o \in 1..Len(outcomes') : outcomes'[o] = "returned"
              /\ BuiltinsInstalled'

\* C11 as stated: a recipe that is not built in and whose one fetch
\* returns a non-200 response, fails or returns an unparsable body is not
\* found: install changes nothing in the tree, does not throw, and the
\* other libraries are still installed; a built-in recipe is resolved
\* without a fetch.
ResolutionNonFatal200 == [][ResolutionStep(Not200)]_vars

\* C11, amended: the same for a fetch that is rejected, is answered with
\* a status outside 200-299, or has an unparsable body.
ResolutionNonFatal == [][ResolutionStep(NotOk)]_vars

\* C11 witness: generateProject is through with the libraries broken and
\* retrofit; the fetch of broken's recipe was answered 404 (with a recipe
\* in its body), no step of broken was run, and retrofit's five steps were
ResolutionNonFatalWitness ==
    /\ pc = "done"
    /\ opts.libraries = <<"broken", "retrofit">>
    /\ fetched = [count |-> 1, last |-> [name |-> "broken", status |-> 404, json |-> TRUE]]
    /\ outcomes = <<"returned", "returned">>
    /\ Len(trace) = 6
    /\ trace[1] = NotFoundEvent("broken")
    /\ \A i \in 1..5 : trace[1 + i] = StepEvent("retrofit", i, FALSE)
    /\ CountIn(files, buildFile(mgr), "implementation(libs.broken)") = 0
    /\ CountIn(files, buildFile(mgr), "implementation(libs.retrofit)") = 1

(***************************************************************************)
(* Specification SpecSanitize: the package identifier generateProject      *)
(* derives from a project name (lines 618-619).                            *)
(***************************************************************************)
NameAlphabet == {"A", "z", "7", "0", " ", "!", "."}

\* every text of at most n characters of the alphabet
RECURSIVE NamesUpTo(_)
NamesUpTo(n) ==
    IF n = 0 THEN {""}
    ELSE LET shorter == NamesUpTo(n - 1)
         IN  shorter \cup {name \o c : name \in shorter, c \in NameAlphabet}

SanitizeNames == NamesUpTo(MaxNameLen) \cup {"123 Cool App!", "Demo App"}

InitSanitize ==
    /\ files = <<>>
    /\ dirs = {}
    /\ ops = 0
    /\ lastOp = NoOp
    /\ InstallerIdle
    /\ pc = "patch"
    /\ run = 1
    /\ \E name \in SanitizeNames :
          opts = [projectName |-> name, uiType |-> "mobile-compose-navigation",
                  libraries |-> <<>>]
    /\ dist = [base |-> TRUE, ui |-> TRUE, gitignore |-> TRUE]
    /\ network = Offline
    /\ resolved = <<>>
    /\ error = ""
    /\ snapshot = NoTree

\* lines 618-619 alone: safeProjectName and packageName
Sanitize ==
    /\ ops = 0
    /\ ops' = 1
    /\ lastOp' = [safeProjectName |-> safeProjectName(opts.projectName),
                  packageName |-> packageNameOf(opts.projectName)]
    /\ UNCHANGED <<treeVars, installVars, genVars>>

NextSanitize == Sanitize

SpecSanitize == InitSanitize /\ [][NextSanitize]_vars

\* the characters of a text, in order
CharSeq(s) == [i \in 1..Len(s) |-> SubSeq(s, i, i)]

IsLetter(c) == includes(LowerCase, c) \/ includes(UpperCase, c)
IsDigit(c) == includes(Digits, c)

\* a letter in lower case
Lowered(c) ==
    IF includes(UpperCase, c) THEN charAt(LowerCase, indexOf(UpperCase, c, 0)) ELSE c

RECURSIVE Concat(_)
Concat(cs) == IF cs = <<>> THEN "" ELSE Head(cs) \o Concat(Tail(cs))

\* the name lower-cased, its non-alphanumeric characters removed and its
\* leading run of digits stripped
SanitizedName(name) ==
    LET alnum   == SelectSeq(CharSeq(name), LAMBDA c : IsLetter(c) \/ IsDigit(c))
        letters == {i \in 1..Len(alnum) : ~IsDigit(alnum[i])}
        rest    == IF letters = {} THEN <<>>
                   ELSE SubSeq(alnum, MinOf(letters), Len(alnum))
    IN  Concat([i \in 1..Len(rest) |-> Lowered(rest[i])])

DefaultSegment == "androidapp"

\* the text after the last dot
LastSegment(s) == substring(s, lastIndexOf(s, ".") + 1, Len(s))

\* C12: the last segment of the package identifier is the project name
\* lower-cased, without its non-alphanumeric characters and without its
\* leading run of digits, or the default segment when nothing is left; it
\* is never empty and never starts with a digit.
SanitizedSegment ==
    ops = 1 =>
        LET segment == LastSegment(lastOp.packageName)
            expect  == SanitizedName(opts.projectName)
        IN  /\ lastOp.packageName = "com.example." \o segment
            /\ segment = IF expect = "" THEN DefaultSegment ELSE expect
            /\ segment # ""
            /\ ~IsDigit(charAt(segment, 0))

\* C12 witness: "123 Cool App!" was sanitized to coolapp
SanitizedSegmentWitness ==
    /\ ops = 1
    /\ opts.projectName = "123 Cool App!"
    /\ "packageName" \in DOMAIN lastOp
    /\ LastSegment(lastOp.packageName) = "coolapp"

(***************************************************************************)
(* Relocation of the placeholder package.                                  *)
(***************************************************************************)
PlaceholderPath == join(join(moduleNameOf(opts.uiType), "src/main/kotlin"), "com/example/template")

PackagePath ==
    join(join(moduleNameOf(opts.uiType), "src/main/kotlin"),
         replaceAll(packageNameOf(opts.projectName), ".", "/"))

SourceTokens == {"{{PACKAGE_NAME}}", "{{PROJECT_NAME}}", "{{APPLICATION_ID}}"}

\* generateProject relocates the placeholder directory in this step
Relocating == pc = "relocate" /\ pc' = "addons" /\ PlaceholderPath \in dirs

\* C13: when the placeholder source directory has been relocated to the
\* package path, every file of the placeholder tree is under the new path,
\* no .kt, .java or .xml file there holds a token any more (the package
\* token has become the package identifier), the placeholder directory is
\* gone, and of the directories above it those that are left are not
\* empty, while none that holds something was removed.
RelocationComplete ==
    [][ Relocating =>
          /\ \A p \in DOMAIN files :
                isUnder(p, PlaceholderPath) =>
                    LET q == moved(p, PlaceholderPath, PackagePath)
                    IN  /\ q \in DOMAIN files'
                        /\ isSourceFile(basename(p)) =>
                              /\ \A t \in SourceTokens : ~includes(files'[q], t)
                              /\ includes(files[p], "{{PACKAGE_NAME}}") =>
                                    includes(files'[q], packageNameOf(opts.projectName))
                        /\ ~isSourceFile(basename(p)) => files'[q] = files[p]
          /\ PlaceholderPath \notin dirs'
          /\ \A p \in DOMAIN files' : ~isUnder(p, PlaceholderPath)
          /\ \A a \in ancestors(PlaceholderPath) \ {"", PlaceholderPath} :
                /\ a \in dirs' => ~isEmptyDir(files', dirs', a)
                /\ a \in dirs'
                     <=> (\E p \in DOMAIN files' : isUnder(p, a))
                         \/ (\E e \in dirs' : isUnder(e, a))
        ]_vars

\* C13 witness: the library of project "123 Cool App!" was relocated:
\* LibraryGreeting.kt is under com/example/coolapp with its package line
\* rewritten and com/example/template is gone
RelocationCompleteWitness ==
    /\ pc = "addons"
    /\ opts.uiType = "compose-library"
    /\ opts.projectName = "123 Cool App!"
    /\ "library/src/main/kotlin/com/example/coolapp/LibraryGreeting.kt" \in DOMAIN files
    /\ startsWith(files["library/src/main/kotlin/com/example/coolapp/LibraryGreeting.kt"],
                  "package com.example.coolapp\n")
    /\ "library/src/main/kotlin/com/example/template" \notin dirs
    /\ "library/src/main/kotlin/com/example" \in dirs

(***************************************************************************)
(* Specification SpecVersions: the version maps generateProject and        *)
(* handleInstall assemble from what the lookups are answered.              *)
(***************************************************************************)
\* VersionResolver.resolveAll: the keys a registry answered for
MavenAnswers ==
    { <<>>,
      [KOTLIN_VERSION |-> "2.1.20"],
      [AGP_VERSION |-> "8.9.1", COMPOSE_BOM_VERSION |-> "2025.03.00",
       RETROFIT_VERSION |-> "2.11.0", KTOR_VERSION |-> "3.1.1"],
      [AGP_VERSION |-> "8.9.1", KOTLIN_VERSION |-> "2.1.20", CORE_KTX_VERSION |-> "1.16.0",
       JUNIT_VERSION |-> "4.13.2", TV_MATERIAL_VERSION |-> "1.1.0-alpha01"] }

\* VersionResolver.getRemoteDefaults: the fallback document, {} on failure
RemoteAnswers ==
    { <<>>,
      [AGP_VERSION |-> "8.8.2", KOTLIN_VERSION |-> "2.1.10"],
      [COMPOSE_BOM_VERSION |-> "2025.01.00", RETROFIT_VERSION |-> "2.9.0",
       KSP_VERSION |-> "2.1.0-1.0.28"],
      [AGP_VERSION |-> "8.8.2", COMPILE_SDK |-> "36", JUNIT_VERSION |-> "4.13.1",
       KTOR_VERSION |-> ""] }

\* VersionResolver.getLatestKspVersion: null, or a version
KspAnswers == {Undefined, "2.1.10-1.0.31", "2.1.20-1.0.32"}

VersionCases == [maven : MavenAnswers, remote : RemoteAnswers, ksp : KspAnswers]

InitVersions ==
    /\ files = DemoFiles
    /\ dirs = DemoDirs
    /\ ops = 0
    /\ lastOp = NoOp
    /\ InstallerIdle
    /\ pc \in {"resolveVersions", "handleInstall"}
    /\ run = 1
    /\ opts = [projectName |-> "Demo App", uiType |-> "mobile-compose-navigation",
               libraries |-> <<>>]
    /\ dist = [base |-> TRUE, ui |-> TRUE, gitignore |-> TRUE]
    /\ network \in VersionCases
    /\ resolved = <<>>
    /\ error = ""
    /\ snapshot = NoTree

\* handleInstall up to new AddonManager(projectPath, moduleName,
\* packageName, versions)
ResolveInstallVersions ==
    /\ pc = "handleInstall"
    /\ mgr' = [DemoManager EXCEPT
                 !.versions = handleInstallVersions(network.maven, network.remote, network.ksp)]
    /\ pc' = "idle"
    /\ UNCHANGED <<treeVars, opVars, stack, trace, requested, outcomes, fetched,
                   run, opts, dist, network, resolved, error, snapshot>>

NextVersions ==
    \/ ResolveVersions
    \/ ResolveInstallVersions

SpecVersions == InitVersions /\ [][NextVersions]_vars

\* the first of the candidates that is there and not empty
RECURSIVE FirstAvailable(_)
FirstAvailable(candidates) ==
    IF candidates = <<>> THEN Undefined
    ELSE IF Head(candidates) \notin {Undefined, ""} THEN Head(candidates)
    ELSE FirstAvailable(Tail(candidates))

\* the key of an entry of a version map, without the braces of a token
KeyOf(entry) == replaceAll(replaceAll(entry[1], "{{", ""), "}}", "")

\* the version an entry of the map gives to a key
ValueIn(map, key) ==
    LET hits == {i \in 1..Len(map) : KeyOf(map[i]) = key}
    IN  IF hits = {} THEN Undefined ELSE map[MinOf(hits)][2]

\* the three sources of a key, in the order registry, fallback document,
\* local default; for the KSP key the registry is the KSP lookup and the
\* local default is the Kotlin version of the map with -1.0.29
RegistryResult(key) ==
    IF key = "KSP_VERSION" THEN network.ksp ELSE Lookup(network.maven, key)

RemoteValue(key) == Lookup(network.remote, key)

LocalDefault(map, key) ==
    IF key = "KSP_VERSION" THEN ValueIn(map, "KOTLIN_VERSION") \o "-1.0.29"
    ELSE Lookup(DEFAULTS, key)

\* the keys generateProject treats as build infrastructure
InfraKeys ==
    { "AGP_VERSION", "KOTLIN_VERSION", "GRADLE_VERSION", "COMPILE_SDK", "TARGET_SDK",
      "MIN_SDK", "CORE_KTX_VERSION", "ACTIVITY_COMPOSE_VERSION", "APPCOMPAT_VERSION",
      "MATERIAL_VERSION", "NAVIGATION_COMPOSE_VERSION", "LIFECYCLE_RUNTIME_KTX_VERSION" }

\* the version maps that were assembled
AssembledMaps ==
    (IF pc = "copyBase" THEN {resolved} ELSE {})
    \cup (IF pc = "idle" /\ mgr # NoManager THEN {mgr.versions} ELSE {})

\* C14 as stated: every key of an assembled version map has the first
\* available of the registry result, the value of the fallback document
\* and the local default.
VersionPriority ==
    \A map \in AssembledMaps : \A i \in 1..Len(map) :
        LET key == KeyOf(map[i])
        IN  map[i][2] = FirstAvailable(<<RegistryResult(key), RemoteValue(key),
                                         LocalDefault(map, key)>>)

\* C14, amended: in generateProject's map a build-infrastructure key has
\* the first available of the fallback document's value and the local
\* default, whatever the registry answered; the KSP key (of either map) has
\* the KSP lookup's result or else the Kotlin version of the map with
\* -1.0.29, whatever the fallback document holds; every other key, and
\* every key but KSP of handleInstall's map, has the first available of
\* registry result, fallback document's value and local default.
VersionPriorityInfra ==
    /\ pc = "copyBase" =>
          /\ Len(resolved) = Len(allKeys) + 1
          /\ \A i \in 1..Len(resolved) :
                LET key == KeyOf(resolved[i])
                IN  resolved[i][2] =
                      IF key \in InfraKeys
                      THEN FirstAvailable(<<RemoteValue(key), LocalDefault(resolved, key)>>)
                      ELSE IF key = "KSP_VERSION"
                      THEN FirstAvailable(<<RegistryResult(key), LocalDefault(resolved, key)>>)
                      ELSE FirstAvailable(<<RegistryResult(key), RemoteValue(key),
                                            LocalDefault(resolved, key)>>)
    /\ (pc = "idle" /\ mgr # NoManager) =>
          /\ Len(mgr.versions) = 4
          /\ \A i \in 1..Len(mgr.versions) :
                LET key == KeyOf(mgr.versions[i])
                IN  mgr.versions[i][2] =
                      IF key = "KSP_VERSION"
                      THEN FirstAvailable(<<RegistryResult(key),
                                            LocalDefault(mgr.versions, key)>>)
                      ELSE FirstAvailable(<<RegistryResult(key), RemoteValue(key),
                                            LocalDefault(mgr.versions, key)>>)

\* C14 witness: generateProject assembled its map when the registry and the
\* fallback document both answered for the Android Gradle plugin and the
\* registry alone for Retrofit: the plugin has the document's version,
\* Retrofit the registry's
VersionPriorityInfraWitness ==
    /\ pc = "copyBase"
    /\ Lookup(network.maven, "AGP_VERSION") = "8.9.1"
    /\ Lookup(network.remote, "AGP_VERSION") = "8.8.2"
    /\ Lookup(network.maven, "RETROFIT_VERSION") = "2.11.0"
    /\ ValueIn(resolved, "AGP_VERSION") = "8.8.2"
    /\ ValueIn(resolved, "RETROFIT_VERSION") = "2.11.0"

(***************************************************************************)
(* Version-control initialization.                                         *)
(***************************************************************************)
\* the files generateProject patches hold no version or project token
TreePatched ==
    /\ \A p \in {tomlPath, wrapperPath, "settings.gradle.kts",
                 join(moduleNameOf(opts.uiType), "build.gradle.kts")} :
          p \in DOMAIN files /\ ~includes(files[p], "{{")
    /\ PlaceholderPath \notin dirs

\* install was called for every library and every call is over
AddonsInstalled ==
    /\ requested = opts.libraries
    /\ stack = <<>>
    /\ Len(outcomes) = Len(requested)

\* C15: when generateProject comes to the git commands the patched tree,
\* the addon edits, local.properties and package.json are written; the
\* commands change none of these files, and whether they succeed or one of
\* them fails generateProject completes without an error.
GitBestEffort ==
    [][ pc = "git" =>
          /\ TreePatched
          /\ AddonsInstalled
          /\ "local.properties" \in DOMAIN files
          /\ files["local.properties"] = "sdk.dir=" \o sdkPath \o "\n"
          /\ "package.json" \in DOMAIN files
          /\ includes(files["package.json"], packageNameOf(opts.projectName))
          /\ run = 1 => ".git" \notin dirs
          /\ files' = files
          /\ pc' = "done"
          /\ error' = ""
      ]_vars

\* C15 witness: generateProject is done with library hilt installed, git
\* add failed after git init had succeeded, and local.properties and
\* package.json are there
GitBestEffortWitness ==
    /\ pc = "done"
    /\ error = ""
    /\ opts.libraries = <<"hilt">>
    /\ trace # <<>>
    /\ trace[Len(trace)] = GitWarning(2)
    /\ ".git" \in dirs
    /\ {"local.properties", "package.json"} \subseteq DOMAIN files
    /\ CountIn(files, buildFile(mgr), "implementation(libs.hilt.android)") = 1

(***************************************************************************)
(* Literal token replacement.                                              *)
(***************************************************************************)
\* the entries of the map whose key stands at position i of the content
KeysAt(content, map, i) == {n \in 1..Len(map) : startsWithAt(content, map[n][1], i)}

\* the positions from i on where a key of the map stands
KeyPositions(content, map, i) ==
    {j \in i..(Len(content) - 1) : KeysAt(content, map, j) # {}}

\* every token occurrence of the content replaced by its value at once,
\* reading the content from position i on: text a value brings in is not
\* read again
RECURSIVE ReplacedAtOnce(_, _, _)
ReplacedAtOnce(content, map, i) ==
    LET positions == KeyPositions(content, map, i)
    IN  IF positions = {} THEN substring(content, i, Len(content))
        ELSE LET j == MinOf(positions)
                 n == MinOf(KeysAt(content, map, j))
             IN  substring(content, i, j) \o map[n][2]
                   \o ReplacedAtOnce(content, map, j + Len(map[n][1]))

\* C16: one application of patchFile leaves the file with every token
\* occurrence of its original content replaced by the token's value, all
\* at once: no text a value brought in is expanded again.
ReplacementLiteral ==
    (ops = 1 /\ "map" \in DOMAIN lastOp /\ lastOp.path \in DOMAIN files) =>
        files[lastOp.path] = ReplacedAtOnce(lastOp.original, lastOp.map, 0)

(***************************************************************************)
(* The Merger's view of a section.                                         *)
(***************************************************************************)
\* the Merger is applied in this step to a catalog that has the section
InsertingIntoSection ==
    /\ ops' = ops + 1
    /\ "section" \in DOMAIN lastOp'
    /\ CatalogExists
    /\ HasSection(files[tomlPath], lastOp'.section)

\* no line of the section starts with whitespace
SectionFlushLeft(doc, section) ==
    LET ls == SectionLines(doc, section)
    IN  \A i \in 1..Len(ls) : ls[i] = "" \/ charAt(ls[i], 0) \notin WS

\* C17: the Merger looks for the key in the lines from the section header
\* to the next line that starts with [ (or to the end): it leaves the
\* catalog alone exactly when one of these lines declares the key, also
\* when a value above that line holds a [, and it inserts the key when
\* only a later section declares it (here for sections without indented
\* lines).
SectionExtentByLines ==
    [][ (InsertingIntoSection /\ SectionFlushLeft(files[tomlPath], lastOp'.section)) =>
          ( files' = files
            <=> KeyCount(files[tomlPath], lastOp'.section, lastOp'.key) >= 1 ) ]_vars

\* no line of the section holds a [
SectionWithoutBracket(doc, section) ==
    LET ls == SectionLines(doc, section)
    IN  \A i \in 1..Len(ls) : ~includes(ls[i], "[")

\* C18: a line of the section that, leading whitespace aside, starts with
\* the key followed by optional whitespace and = suppresses the insertion
\* of the key (here for sections in which no [ cuts the Merger's view
\* short).
IndentedKeySuppresses ==
    [][ ( /\ InsertingIntoSection
          /\ SectionWithoutBracket(files[tomlPath], lastOp'.section)
          /\ KeyCount(files[tomlPath], lastOp'.section, lastOp'.key) >= 1 )
        => files' = files ]_vars

\* C19: the Merger changes the catalog only when the file exists, has the
\* section header and the section does not declare the key: it creates no
\* file, no directory and no section, and a key that is declared keeps its
\* line while the document stays as it is.
MergerChangesOnlyWhenAbsent ==
    [][ (ops' = ops + 1 /\ "section" \in DOMAIN lastOp') =>
          /\ dirs' = dirs
          /\ DOMAIN files' = DOMAIN files
          /\ files' # files =>
                /\ HasSection(files[tomlPath], lastOp'.section)
                /\ KeyCount(files[tomlPath], lastOp'.section, lastOp'.key) = 0
                /\ \A section \in MergerSections :
                      HasSection(files'[tomlPath], section)
                        <=> HasSection(files[tomlPath], section)
      ]_vars

(***************************************************************************)
(* Version resolution and the first mutation.                              *)
(***************************************************************************)
\* generateProject has not assembled versionPatches yet
MapNotAssembled == pc \in {"ensureDir", "resolveVersions"}

\* C20: as long as the version patch map of the run is not assembled, no
\* file and no directory of the destination is created or changed.
NoMutationBeforeVersions ==
    [][ MapNotAssembled => (files' = files /\ dirs' = dirs) ]_vars

(***************************************************************************)
(* The order of the materialization steps.                                 *)
(***************************************************************************)
\* the files of the base template that every variant keeps
BaseCopied ==
    {rootBuildFile, "settings.gradle.kts", tomlPath, wrapperPath, "scripts/adb.js"}
        \subseteq DOMAIN files

\* the files of the variant's template are in the tree
UiCopied == DOMAIN UiTemplate(opts.uiType) \subseteq DOMAIN files

\* nothing is left of the app module
AppRemoved == "app" \notin dirs /\ \A p \in DOMAIN files : ~isUnder(p, "app")

\* the sources are relocated and hold no token
SourcesRelocated ==
    /\ PlaceholderPath \notin dirs
    /\ \A p \in DOMAIN files :
          (isUnder(p, PackagePath) /\ isSourceFile(basename(p))) =>
              \A t \in SourceTokens : ~includes(files[p], t)

\* C21: the steps of generateProject run one after the other in the stated
\* order: the variant is copied onto the freshly copied, still unpatched
\* base tree (without the app module for a library); patching finds base
\* and variant copied; an addon is installed only when the configuration
\* is patched and the sources are relocated and patched; local.properties
\* and package.json are written only when install was called for every
\* library and every call is over.
StepsInOrder ==
    [][ /\ (pc = "copyUi" /\ pc' = "patch") =>
              /\ BaseCopied
              /\ files["settings.gradle.kts"] = SettingsTemplate
              /\ isLibrary(opts.uiType) => AppRemoved
        /\ (pc = "patch" /\ pc' = "relocate") =>
              /\ BaseCopied
              /\ UiCopied
              /\ files[join(moduleNameOf(opts.uiType), "build.gradle.kts")]
                    = UiTemplate(opts.uiType)[join(moduleNameOf(opts.uiType), "build.gradle.kts")]
        /\ (pc = "relocate" /\ pc' = "addons") =>
              ~includes(files[join(moduleNameOf(opts.uiType), "build.gradle.kts")], "{{")
        /\ (pc = "addons" /\ requested' # requested) =>
              /\ SourcesRelocated
              /\ ~includes(files[tomlPath], "{{")
              /\ "local.properties" \in DOMAIN files => run > 1
        /\ (pc = "addons" /\ pc' = "packageJson") =>
              /\ AddonsInstalled
              /\ SourcesRelocated
              /\ "local.properties" \in DOMAIN files'
        /\ (pc = "packageJson" /\ pc' = "git") =>
              /\ AddonsInstalled
              /\ "local.properties" \in DOMAIN files
              /\ "package.json" \in DOMAIN files'
      ]_vars

\* C21 witness: the library variant with addon hilt has come to
\* package.json: the app module is gone, the sources are relocated, hilt's
\* nine steps were run and local.properties is written
StepsInOrderWitness ==
    /\ pc = "packageJson"
    /\ run = 1
    /\ opts.uiType = "compose-library"
    /\ opts.libraries = <<"hilt">>
    /\ requested = <<"hilt">>
    /\ AppRemoved
    /\ SourcesRelocated
    /\ PackagePath \in dirs
    /\ \E i \in 1..Len(trace) : trace[i].kind = "step" /\ trace[i].recipe = "hilt"
    /\ "local.properties" \in DOMAIN files
    /\ "package.json" \notin DOMAIN files

(***************************************************************************)
(* Specification SpecSteps: turns of the steps loop of install (lines      *)
(* 45-57), taken one by one on a generated project, with the version map   *)
(* of generateProject (keys in braces) or of handleInstall (bare keys).    *)
(***************************************************************************)
\* a recipe of text patches on the activity, as a recipe file may carry
\* them: a plain one, one whose pattern is not in the file, one that ends
\* in a line break, and one whose Kotlin text holds the character '$'
TextPatchRecipe ==
    [name |-> "textpatch",
     steps |-> << PatchFile(MainActivityPath, "class MainActivity",
                            "@Keep\nclass MainActivity"),
                  PatchFile(MainActivityPath, "import android.view.View",
                            "import android.view.View\nimport android.view.Window"),
                  PatchFile(MainActivityPath, "import android.os.Bundle\n",
                            "import android.os.Bundle\nimport android.util.Log\n"),
                  PatchFile(MainActivityPath, "class MainActivity",
                            "const val SIGN = '$'\n\nclass MainActivity") >>]

StepRecipes == {"hilt", "ksp", "retrofit", "textpatch"}

\* the recipe resolveRecipe gives for a name
StepRecipe(name) ==
    IF name \in DOMAIN BUILTIN_RECIPES THEN BUILTIN_RECIPES[name] ELSE TextPatchRecipe

StepManagers ==
    {DemoManager}
    \cup {[DemoManager EXCEPT !.versions = handleInstallVersions(n.maven, n.remote, n.ksp)] :
            n \in NetworkCases}

InitSteps ==
    /\ files = DemoFiles
    /\ dirs = DemoDirs
    /\ ops = 0
    /\ lastOp = NoOp
    /\ mgr \in StepManagers
    /\ stack = <<>>
    /\ trace = <<>>
    /\ requested = <<>>
    /\ outcomes = <<>>
    /\ fetched = NoneFetched
    /\ GeneratorIdle

\* one turn of the loop over recipe.steps: applyPatches on a copy of the
\* step, executeStep, and the catch that logs and goes on
StepTurn(name, i) ==
    /\ ops < MaxTurns
    /\ LET step    == StepRecipe(name).steps[i]
           patched == patchedStep(mgr, step)
           threw   == stepThrows(mgr, files, dirs, patched)
           after   == executeStep(mgr, files, dirs, patched)
       IN  /\ files' = IF threw THEN files ELSE after.files
           /\ dirs' = IF threw THEN dirs ELSE after.dirs
           /\ lastOp' = [recipe |-> name, index |-> i, step |-> step,
                         patched |-> patched, threw |-> threw]
    /\ ops' = ops + 1
    /\ UNCHANGED <<installVars, genVars>>

\* the file hilt creates, and what a developer adds to it
ApplicationPath == "app/src/main/kotlin/com/example/demoapp/MainApplication.kt"

ApplicationEdit == " {\n    override fun onCreate() {\n        super.onCreate()\n    }\n}\n"

EditEvent(p) == [kind |-> "edit", recipe |-> "", index |-> p, threw |-> FALSE]

\* between two turns the developer edits the application class
EditApplication ==
    /\ ops < MaxTurns
    /\ ApplicationPath \in DOMAIN files
    /\ ~includes(files[ApplicationPath], ApplicationEdit)
    /\ Len(trace) < MaxTurns
    /\ files' = [files EXCEPT ![ApplicationPath] = @ \o ApplicationEdit]
    /\ lastOp' = NoOp
    /\ trace' = Append(trace, EditEvent(ApplicationPath))
    /\ UNCHANGED <<dirs, ops, mgr, stack, requested, outcomes, fetched, genVars>>

NextSteps ==
    \/ \E name \in StepRecipes : \E i \in 1..Len(StepRecipe(name).steps) : StepTurn(name, i)
    \/ EditApplication

SpecSteps == InitSteps /\ [][NextSteps]_vars

\* the version map of the manager with every key in braces
Tokens(versions) ==
    [i \in 1..Len(versions) |-> <<"{{" \o KeyOf(versions[i]) \o "}}", versions[i][2]>>]

\* C22: the step handed to executeStep has, in value, replacement and
\* content, every token of the version map replaced by the map's version,
\* for maps with keys in braces and with bare keys; and no file holds a
\* token of the map after the step that did not hold it before.
StepTokensResolved ==
    [][ (ops' = ops + 1 /\ "patched" \in DOMAIN lastOp') =>
          LET tokens == Tokens(mgr.versions)
          IN  /\ \A k \in {"value", "replacement", "content"} \cap DOMAIN lastOp'.step :
                    lastOp'.patched[k] = ReplacedAtOnce(lastOp'.step[k], tokens, 0)
              /\ \A p \in DOMAIN files' :
                    (p \notin DOMAIN files \/ files'[p] # files[p]) =>
                        \A t \in 1..Len(tokens) :
                            includes(files'[p], tokens[t][1]) =>
                                (p \in DOMAIN files /\ includes(files[p], tokens[t][1]))
      ]_vars

\* C22 witness: with handleInstall's map (bare keys) the first step of
\* retrofit wrote the resolved Retrofit version into the catalog
StepTokensResolvedWitness ==
    /\ ops = 1
    /\ "patched" \in DOMAIN lastOp
    /\ lastOp.recipe = "retrofit"
    /\ lastOp.index = 1
    /\ mgr.versions[1][1] = "KOTLIN_VERSION"
    /\ ValueIn(mgr.versions, "RETROFIT_VERSION") = "2.11.0"
    /\ lastOp.step.value = "{{RETROFIT_VERSION}}"
    /\ lastOp.patched.value = "2.11.0"
    /\ KeyCountIn(files, "[versions]", "retrofit") = 1
    /\ includes(files[tomlPath], "retrofit = \"2.11.0\"")

\* some key of the map occurs in the content
HoldsKey(content, map) == \E i \in 1..Len(map) : includes(content, map[i][1])

\* C23: a call of the patcher on a missing file changes nothing and writes
\* nothing; a call on a file that holds no key of the map writes nothing
\* and leaves the file as it was; and a write happens only when a key of
\* the map was in the file.
PatchWritesOnlyOnHit ==
    [][ (ops' = ops + 1 /\ "map" \in DOMAIN lastOp) =>
          LET present == lastOp.path \in DOMAIN files
              hit     == present /\ HoldsKey(files[lastOp.path], lastOp.map)
          IN  /\ ~hit => (files' = files /\ dirs' = dirs /\ lastOp'.writes = lastOp.writes)
              /\ ~present => lastOp.path \notin DOMAIN files'
              /\ lastOp'.writes > lastOp.writes => hit
              /\ hit => lastOp'.writes = lastOp.writes + 1
      ]_vars

\* C23 witness: the patcher was applied to a file without any key of its
\* map; the file is as it was and nothing was written
PatchWritesOnlyOnHitWitness ==
    /\ ops >= 1
    /\ "map" \in DOMAIN lastOp
    /\ lastOp.path = "gradle.properties"
    /\ lastOp.path \in DOMAIN files
    /\ ~HoldsKey(lastOp.original, lastOp.map)
    /\ files[lastOp.path] = lastOp.original
    /\ lastOp.writes = 0

\* C23 witness of the other case: the patcher was applied where no file is
PatchMissingFileWitness ==
    /\ ops >= 1
    /\ "map" \in DOMAIN lastOp
    /\ files = <<>>
    /\ lastOp.writes = 0

\* this step is a turn of the steps loop on a patch_file step
PatchFileTurn ==
    /\ ops' = ops + 1
    /\ "patched" \in DOMAIN lastOp'
    /\ lastOp'.step.type = "patch_file"

\* the file a patch_file step is aimed at
TargetOf(step) == resolvePath(mgr, step.file)

\* C25: a patch_file step leaves the tree as it is when the trimmed
\* replacement is in the target file, and when the pattern is not in it;
\* and the same patch_file step taken a second time right after the first
\* changes nothing.
TextPatchOnce ==
    [][ PatchFileTurn =>
          LET step   == lastOp'.patched
              target == TargetOf(step)
          IN  /\ (target \in DOMAIN files /\ includes(files[target], trim(step.replacement)))
                    => files' = files
              /\ (target \in DOMAIN files /\ ~includes(files[target], step.pattern))
                    => files' = files
              /\ ("patched" \in DOMAIN lastOp /\ lastOp.recipe = lastOp'.recipe
                    /\ lastOp.index = lastOp'.index)
                    => files' = files
      ]_vars

(***************************************************************************)
(* One package identifier.                                                 *)
(***************************************************************************)
\* generateProject is past the install loop and has not thrown
Materialized == pc \in {"packageJson", "git", "done"}

\* the path made of the segments of a dotted name
RECURSIVE SegmentsPath(_)
SegmentsPath(name) ==
    LET i == indexOf(name, ".", 0)
    IN  IF i = NotFound THEN name
        ELSE join(substring(name, 0, i), SegmentsPath(substring(name, i + 1, Len(name))))

RepoAnswers == [google : {Undefined, "1.0.0"}, central : {Undefined, "2.0.0"}]

ResolveKeys == {installKeys[i] : i \in 1..Len(installKeys)}

ResolveWarning(key) == [warn |-> "Failed to resolve version for", key |-> key]

\* lines 93-97 where a failed lookup empties the results
settledOrCleared(results, key, version) ==
    IF version # Undefined
    THEN [k \in DOMAIN results \cup {key} |-> IF k = key THEN version ELSE results[k]]
    ELSE <<>>

\* lines 93-97: results[key] = version when there is a version
settled(results, key, version) ==
    IF version # Undefined
    THEN [k \in DOMAIN results \cup {key} |-> IF k = key THEN version ELSE results[k]]
    ELSE results

InitResolve ==
    /\ files = DemoFiles
    /\ dirs = DemoDirs
    /\ ops = 0
    /\ \E answers \in [ResolveKeys -> RepoAnswers] :
          lastOp = [answers |-> answers, at |-> [k \in ResolveKeys |-> "unborn"]]
    /\ InstallerIdle
    /\ pc = "resolveAll"
    /\ run = 0
    /\ opts = NoOptions
    /\ dist = [base |-> TRUE, ui |-> TRUE, gitignore |-> TRUE]
    /\ network = Offline
    /\ resolved = <<>>
    /\ error = ""
    /\ snapshot = NoTree

\* lines 90-98: Object.entries(artifacts).map(...) starts every callback,
\* each runs up to its first await
IssueLookups ==
    /\ pc = "resolveAll"
    /\ lastOp' = [lastOp EXCEPT !.at = [k \in ResolveKeys |-> "google"]]
    /\ pc' = "awaitAll"
    /\ UNCHANGED <<treeVars, ops, installVars, run, opts, dist, network, resolved,
                   error, snapshot>>

\* the callback of `key` is over, with this version or with null
Settle(key, version) ==
    /\ lastOp' = [lastOp EXCEPT !.at[key] = "settled"]
    /\ resolved' = settled(resolved, key, version)
    /\ trace' = IF version = Undefined THEN Append(trace, ResolveWarning(key)) ELSE trace

\* getLatestVersion line 17: the answer of Google Maven arrives
AnswerGoogle(key) ==
    /\ pc = "awaitAll"
    /\ lastOp.at[key] = "google"
    /\ IF lastOp.answers[key].google # Undefined
       THEN Settle(key, lastOp.answers[key].google)
       ELSE /\ lastOp' = [lastOp EXCEPT !.at[key] = "central"]
            /\ UNCHANGED <<resolved, trace>>
    /\ UNCHANGED <<treeVars, ops, mgr, stack, requested, outcomes, fetched,
                   pc, run, opts, dist, network, error, snapshot>>

\* getLatestVersion line 19: the answer of Maven Central arrives
AnswerCentral(key) ==
    /\ pc = "awaitAll"
    /\ lastOp.at[key] = "central"
    /\ Settle(key, lastOp.answers[key].central)
    /\ UNCHANGED <<treeVars, ops, mgr, stack, requested, outcomes, fetched,
                   pc, run, opts, dist, network, error, snapshot>>

\* lines 100-101: Promise.all is fulfilled once every callback is over
ReturnResults ==
    /\ pc = "awaitAll"
    /\ \A k \in ResolveKeys : lastOp.at[k] = "settled"
    /\ pc' = "returned"
    /\ UNCHANGED <<treeVars, opVars, installVars, run, opts, dist, network, resolved,
                   error, snapshot>>

NextResolve ==
    \/ IssueLookups
    \/ \E key \in ResolveKeys : AnswerGoogle(key)
    \/ \E key \in ResolveKeys : AnswerCentral(key)
    \/ ReturnResults

SpecResolve == InitResolve /\ [][NextResolve]_vars

\* what getLatestVersion gives for the key
LookupResult(key) == OrElse(lastOp.answers[key].google, lastOp.answers[key].central)

\* C26: resolveAll starts every lookup before any of them is answered;
\* when it has returned, every lookup is over and the map holds a key
\* exactly when its lookup gave a version, with that version; and a lookup
\* that ends, failed or not, leaves the entries of the other keys as they
\* were.
ResolveAllComplete ==
    /\ [](pc = "awaitAll" => \A k \in ResolveKeys : lastOp.at[k] # "unborn")
    /\ [](pc = "returned" =>
            /\ \A k \in ResolveKeys : lastOp.at[k] = "settled"
            /\ DOMAIN resolved = {k \in ResolveKeys : LookupResult(k) # Undefined}
            /\ \A k \in DOMAIN resolved : resolved[k] = LookupResult(k))
    /\ [][ \A k \in ResolveKeys :
              (lastOp.at[k] # "settled" /\ lastOp'.at[k] = "settled") =>
                  \A j \in ResolveKeys \ {k} : Lookup(resolved', j) = Lookup(resolved, j)
       ]_vars

\* C26 witness: Retrofit's lookup failed in both repositories, Kotlin's
\* was answered by Maven Central and Ktor's by Google Maven; resolveAll
\* returned the versions of Kotlin and Ktor
ResolveAllCompleteWitness ==
    /\ pc = "returned"
    /\ DOMAIN resolved = {"KOTLIN_VERSION", "KTOR_VERSION"}
    /\ resolved["KOTLIN_VERSION"] = "2.0.0"
    /\ resolved["KTOR_VERSION"] = "1.0.0"
    /\ trace = <<ResolveWarning("RETROFIT_VERSION")>>

\* every lookup failed: no registry result, an empty fallback document and
\* no KSP version
AllLookupsFailed ==
    /\ network.maven = <<>>
    /\ network.remote = <<>>
    /\ network.ksp = Undefined

\* C27: when every network lookup has failed, every entry of the version
\* map of generateProject and of the version map of handleInstall has a
\* defined, non-empty value, the local default of its key where there is
\* one to take.
OfflineDefaultsComplete ==
    AllLookupsFailed =>
        \A map \in {resolved, mgr.versions} : \A i \in 1..Len(map) :
            /\ map[i][2] \notin {Undefined, ""}
            /\ KeyOf(map[i]) \in DOMAIN DEFAULTS => map[i][2] = DEFAULTS[KeyOf(map[i])]

\* the tokens generateProject replaces: the three identifiers and the keys
\* of the version map of the run
MaterializerTokens == SourceTokens \cup {resolved[i][1] : i \in 1..Len(resolved)}

\* a Kotlin or Java file of a source root of the module, or a build file
IsSourceOrBuildFile(p) ==
    LET module == moduleNameOf(opts.uiType)
    IN  \/ /\ \/ isUnder(p, join(module, "src/main/kotlin"))
              \/ isUnder(p, join(module, "src/main/java"))
           /\ endsWith(p, ".kt") \/ endsWith(p, ".java")
        \/ endsWith(p, ".gradle.kts")
        \/ p = tomlPath

\* C28: when generateProject is done, no source file of the module (under
\* src/main/kotlin or src/main/java) and no build file of the destination
\* holds a token of the materializer.
NoTokenLeft ==
    pc = "done" =>
        \A p \in DOMAIN files :
            IsSourceOrBuildFile(p) => \A t \in MaterializerTokens : ~includes(files[p], t)

(***************************************************************************)
(* Specification SpecRoundTrip: generateProject, then the install command  *)
(* in the generated project up to the construction of its AddonManager.    *)
(***************************************************************************)
\* the match of /namespace = "(.*)"/ with the quote of the pattern at i:
\* the line has a closing quote after it
namespaceMatchAt(content, i) ==
    /\ startsWithAt(content, "namespace = \"", i)
    /\ \E j \in (i + 13)..(Len(content) - 1) :
          /\ charAt(content, j) = "\""
          /\ \A k \in (i + 13)..j : charAt(content, k) \notin LineTerminators

\* buildContent.match(/namespace = "(.*)"/)[1], undefined without a match:
\* the leftmost match, its group running to the last quote of the line
namespaceGroup(content) ==
    LET starts == {i \in 0..(Len(content) - 1) : namespaceMatchAt(content, i)}
    IN  IF starts = {} THEN Undefined
        ELSE LET i == MinOf(starts)
                 closing == {j \in (i + 13)..(Len(content) - 1) :
                               /\ charAt(content, j) = "\""
                               /\ \A k \in (i + 13)..j :
                                     charAt(content, k) \notin LineTerminators}
                 last == CHOOSE j \in closing : \A k \in closing : k <= j
             IN  substring(content, i + 13, last)

InitRoundTrip ==
    /\ InitGen
    /\ dist = [base |-> TRUE, ui |-> TRUE, gitignore |-> TRUE]
    /\ opts.libraries \in {<<>>, <<"hilt">>}

\* handleInstall, lines 96-134, run in the directory generateProject has
\* filled: process.exit(1) without package.json, without the build file of
\* the module or without a namespace line, otherwise the AddonManager
HandleInstall ==
    /\ pc = "done"
    /\ LET moduleName == IF existsSync(files, dirs, "library") THEN "library" ELSE "app"
           build      == join(moduleName, "build.gradle.kts")
       IN  IF \/ "package.json" \notin DOMAIN files
              \/ build \notin DOMAIN files
              \/ namespaceGroup(files[build]) = Undefined
           THEN /\ pc' = "exited"
                /\ mgr' = NoManager
           ELSE /\ pc' = "addonManager"
                /\ mgr' = [moduleName  |-> moduleName,
                           packageName |-> namespaceGroup(files[build]),
                           versions    |-> handleInstallVersions(network.maven, network.remote,
                                                                 network.ksp)]
    /\ UNCHANGED <<treeVars, opVars, stack, trace, requested, outcomes, fetched,
                   run, opts, dist, network, resolved, error, snapshot>>

NextRoundTrip ==
    \/ NextGen
    \/ HandleInstall

SpecRoundTrip == InitRoundTrip /\ [][NextRoundTrip]_vars

\* the steps of the built-in recipes that name a file in the package
PackageSteps ==
    {s \in UNION {{r.steps[i] : i \in 1..Len(r.steps)} :
                     r \in {BUILTIN_RECIPES[n] : n \in DOMAIN BUILTIN_RECIPES}} :
        "file" \in DOMAIN s /\ includes(s.file, "{{PACKAGE_PATH}}")}

\* C29: the install command run in a generated project builds its
\* AddonManager with the module name and the package identifier of
\* generateProject, and the directory in which its recipes create and
\* patch the files of the package is the directory that holds the Kotlin
\* sources of the module.
InstallRoundTrip ==
    [][ (pc = "done" /\ pc' # "done" /\ run' = run) =>
          /\ pc' = "addonManager"
          /\ mgr'.moduleName = moduleNameOf(opts.uiType)
          /\ mgr'.packageName = packageNameOf(opts.projectName)
          /\ \A s \in PackageSteps :
                /\ dirname(resolvePath(mgr', s.file)) = PackagePath
                /\ \A p \in DOMAIN files :
                      (isUnder(p, join(mgr'.moduleName, "src/main")) /\ endsWith(p, ".kt"))
                          => isUnder(p, dirname(resolvePath(mgr', s.file)))
      ]_vars

\* this step is a turn of the steps loop on a create_file step
CreateFileTurn ==
    /\ ops' = ops + 1
    /\ "patched" \in DOMAIN lastOp'
    /\ lastOp'.step.type = "create_file"

\* C30: after a create_file step the file at <module>/src/main/kotlin/
\* <package path>/<name> is there with its directories, whatever was there
\* before, and holds the content of the step with the package token and
\* the version tokens replaced; every other file is as it was.
CreateFileOverwrites ==
    [][ CreateFileTurn =>
          LET step   == lastOp'.step
              target == join(join(join(mgr.moduleName, "src/main/kotlin"),
                                  SegmentsPath(mgr.packageName)),
                             basename(step.file))
          IN  /\ step.file = "{{MODULE}}/src/main/kotlin/{{PACKAGE_PATH}}/" \o basename(step.file)
              /\ target \in DOMAIN files'
              /\ files'[target] =
                    ReplacedAtOnce(step.content,
                                   << <<"{{PACKAGE_NAME}}", mgr.packageName>> >>
                                      \o Tokens(mgr.versions), 0)
              /\ ancestors(target) \subseteq dirs'
              /\ \A p \in DOMAIN files : p # target => (p \in DOMAIN files' /\ files'[p] = files[p])
              /\ DOMAIN files' = DOMAIN files \cup {target}
      ]_vars

\* C30 witness: hilt's application class was created, edited by the
\* developer and created again: the edit is gone
CreateFileOverwritesWitness ==
    /\ ops = 2
    /\ "patched" \in DOMAIN lastOp
    /\ lastOp.step.type = "create_file"
    /\ trace = <<EditEvent(ApplicationPath)>>
    /\ ApplicationPath \in DOMAIN files
    /\ ~includes(files[ApplicationPath], ApplicationEdit)
    /\ startsWith(files[ApplicationPath], "package com.example.demoapp\n")

====
